---------------------------- MODULE Spec2Model ----------------------------
(***************************************************************************)
(* Model of the GPSD JSON client clock driver of NTPsec                    *)
(* (src/ntpd/refclock_gpsd.c): the record assembly of gpsd_receive, the    *)
(* life cycle of a clock unit shared by a primary peer (unit < 128) and a  *)
(* secondary PPS peer (unit >= 128), the record handlers of gpsd_parse,    *)
(* the mode dependent sample evaluation and the per-second timers.         *)
(*                                                                         *)
(* Time stamps (l_fp) are integers counting half seconds, so that the      *)
(* integral part of a difference is lfpsint(d) = floor(d / 2).             *)
(* Log output, log throttling, the statistics tallies other than tc_breply  *)
(* and the unit fields that only steer log output or are never read        *)
(* (fl_vers, fl_watch, pps_stamp) are not part of the model.  The outcome   *)
(* of parsing a record is part of the record, so pf_nsec, which selects    *)
(* the member names get_binary_time reads, is not part of it either.       *)
(***************************************************************************)
EXTENDS Integers, Sequences, FiniteSets, TLC

VARIABLES
    buffer,     \* up->buffer[0 .. up->buflen-1], the line being assembled
    maxwr,      \* highest index of up->buffer written so far (-1: none)
    lastline,   \* the line most recently handed to gpsd_parse
    fault,      \* "none", or "segv" once undefined behaviour faulted
    up,         \* the clock unit (struct gpsd_unit), refcount 0: not allocated
    pri,        \* the primary peer and its refclockproc
    sec,        \* the secondary (PPS) peer and its refclockproc
    fds,        \* sockets: [open: open descriptors, reg: those registered for I/O]
    s_gpsd_addr,\* head of the resolved address list, 0: resolution failed
    idle2,      \* history: secondary timer ticks since its last sample
    toff_seen,  \* history: pf_toff was set at some time in this unit's life
    tmr,        \* history: what the timer of the primary peer did, see NoTimer
    last,       \* history: the record last dispatched and the flags it was evaluated on
    main,       \* the daemon's main loop (src/ntpd/ntpd_nonroot.c), see NoMain
    cli,        \* the command line being parsed by parse_cmdline_opts, see NoCli
    ws,         \* the parent waiting in wait_child_sync_if, see NoWait
    core,       \* the synchronization engine the driver feeds, see NoCore
    jsn,        \* a call of get_binary_time on a parsed record, see NoJson
    clk,        \* the list of clock units s_clock_units and its peers, see NoClock
    prc         \* the precision estimates of a unit and its peers, see NoPrecision

\* the state of the clock driver
driver == <<buffer, maxwr, lastline, fault, up, pri, sec, fds, s_gpsd_addr,
            idle2, toff_seen, tmr, last>>

\* the state of the daemon around it
daemon == <<main, cli, ws, core>>

\* the driver's helpers, run on their own
helpers == <<jsn, clk, prc>>

vars == <<driver, daemon, helpers>>

(***************************************************************************)
(* Program constants and bounds                                            *)
(***************************************************************************)

\* the calls of gpsd_init_socket are counted modulo NumTries
NumTries == 3

\* size of up->buffer; the driver uses 8192, the model a small buffer
MAX_PDU_LEN == 3

\* how far beyond the end of up->buffer the model follows the write pointer
MaxOverrun == 2

\* longest chunk a single gpsd_receive call delivers
MaxChunk == 2

\* receive/connect timeout in timer ticks; the driver uses 10 and 120
TICKOVER_LOW == 5

TICKOVER_HIGH == 10

\* upper limit of the primary PPS account; the driver uses 60
PPS_MAXCOUNT == 6

PPS_INCCOUNT == 3

PPS_DECCOUNT == 1

\* upper limit of the secondary PPS counter; the driver uses 10
PPS2_MAXCOUNT == 4

MODE_OP_IBT == 0

MODE_OP_STRICT == 1

MODE_OP_AUTO == 2

MODE_OP_MAXVAL == 2

\* samples a peer's sample buffer holds before the oldest is overwritten
MaxStage == 1

\* bad replies counted between two polls
MaxTally == 1

\* socket descriptors the process can have open: 1 .. MaxFd
MaxFd == 2

\* addresses in the list getaddrinfo returned: 1 .. NumAddr
NumAddr == 2


Max(a, b) == IF a > b THEN a ELSE b

Min(a, b) == IF a < b THEN a ELSE b

(***************************************************************************)
(* gpsd_receive: assembly of lines in up->buffer                           *)
(*                                                                         *)
(* A character is "x" (greater than ' '), "s" (white space or control,     *)
(* not greater than ' ') or "n" (line feed).  The assembly state is        *)
(* [buf, edst, maxwr, line]: buf is buffer[0 .. pdst-1], edst the index    *)
(* the code computed as the end of the destination.                        *)
(***************************************************************************)

Chars == {"x", "s", "n"}

RECURSIVE Chunks(_)
Chunks(n) == IF n = 0 THEN {<<>>}
             ELSE LET shorter == Chunks(n - 1)
                  IN  shorter \cup {Append(c, ch) : c \in shorter, ch \in Chars}

\* while (pdst != up->buffer && pdst[-1] <= ' ') --pdst;
RECURSIVE TrimTrailing(_)
TrimTrailing(b) == IF Len(b) > 0 /\ b[Len(b)] = "s"
                   THEN TrimTrailing(SubSeq(b, 1, Len(b) - 1))
                   ELSE b

\* one turn of the while (psrc < esrc) loop
ReceiveChar(st, ch) ==
    IF ch = "n"
    THEN LET t == TrimTrailing(st.buf)
         IN  \* *pdst = '\0' is a write at index Len(t); then pdst = up->buffer
             [st EXCEPT !.buf = <<>>, !.maxwr = Max(st.maxwr, Len(t)), !.line = t]
    ELSE IF Len(st.buf) < st.edst
    THEN IF ch = "x" \/ Len(st.buf) # 0
         THEN [st EXCEPT !.buf = Append(st.buf, ch),
                         !.maxwr = Max(st.maxwr, Len(st.buf))]
         ELSE st
    ELSE st

RECURSIVE ReceiveLoop(_, _)
ReceiveLoop(st, chunk) ==
    IF chunk = <<>> THEN st
    ELSE ReceiveLoop(ReceiveChar(st, Head(chunk)), Tail(chunk))

\* pdst = up->buffer + up->buflen; edst = pdst + sizeof(up->buffer) - 1;
AssembleChunk(buf, mw, ln, chunk) ==
    ReceiveLoop([buf |-> buf, edst |-> Len(buf) + MAX_PDU_LEN - 1,
                 maxwr |-> mw, line |-> ln], chunk)

(***************************************************************************)
(* The clock unit and its two peers                                        *)
(***************************************************************************)

\* emalloc_zero(sizeof(*up)) and "initialize the unit structure"
NewUnit(addr) ==
    [refcount |-> 1, pps_peer |-> "NULL", mode |-> 0,
     pf_toff |-> FALSE,
     fl_nosync |-> FALSE, fl_ibt |-> FALSE, fl_pps |-> FALSE, fl_pps2 |-> FALSE,
     fl_rawibt |-> FALSE,
     ppscount |-> 0, ppscount2 |-> 0,
     pps_local |-> 0, pps_recvt |-> 0,
     pps_stamp2 |-> 0, pps_recvt2 |-> 0,
     ibt_local |-> 0, ibt_stamp |-> 0, ibt_recvt |-> 0,
     pps_fudge |-> 0, pps_fudge2 |-> 0, ibt_fudge |-> 0,
     fdt |-> -1, addr |-> addr, tickover |-> 0, tickpres |-> TICKOVER_LOW,
     tc_breply |-> 0]

\* no unit on s_clock_units
NoUnit == [NewUnit(0) EXCEPT !.refcount = 0, !.tickpres = 0]

\* a peer that is not started; flag2 is CLK_FLAG2 of pp->sloppyclockflag
NoPrimary == [started |-> FALSE, io_fd |-> -1, pending |-> 0, flag2 |-> FALSE]

\* flag1 is CLK_FLAG1 of pp->sloppyclockflag, flag_pps is FLAG_PPS of peer->cfg.flags
NoSecondary == [started |-> FALSE, pending |-> 0, flag1 |-> FALSE, flag_pps |-> FALSE]

\* up->pps_peer points to a peer that was removed
Dangling(u, s) == u.pps_peer = "SEC" /\ ~s.started

\* no sample
NoSample == <<>>

(***************************************************************************)
(* handle opmode switches                                                  *)
(***************************************************************************)

enter_opmode(u, mode) ==
    LET a == IF mode = MODE_OP_AUTO
             THEN [u EXCEPT !.fl_rawibt = FALSE, !.ppscount = PPS_MAXCOUNT \div 2]
             ELSE u
    IN  [a EXCEPT !.fl_pps = FALSE, !.fl_ibt = FALSE]

leave_opmode(u, mode) ==
    LET a == IF mode = MODE_OP_AUTO
             THEN [u EXCEPT !.fl_rawibt = FALSE, !.ppscount = 0]
             ELSE u
    IN  [a EXCEPT !.fl_pps = FALSE, !.fl_ibt = FALSE]

(***************************************************************************)
(* operation mode specific evaluation.  The context c is                   *)
(* [up, pri, sec, fedP, fedS, uaf]: the unit, the two peers, the sample    *)
(* fed to each peer by this gpsd_parse call, and whether the call used a   *)
(* dangling up->pps_peer.                                                  *)
(***************************************************************************)

\* the sample goes to the peer's sample buffer (refclock_process_offset), where
\* pending counts the samples between pp->codeproc and pp->coderecv
add_clock_sample(p) == [p EXCEPT !.pending = Min(MaxStage, p.pending + 1)]

\* eval_strict feeding as soon as either stamp is there: C5 fails of it
eval_strict_either(c) ==
    IF c.up.fl_ibt \/ c.up.fl_pps
    THEN [c EXCEPT !.pri = add_clock_sample(c.pri),
                   !.fedP = <<c.up.ibt_stamp, c.up.pps_recvt>>,
                   !.up.fl_pps = FALSE,
                   !.up.fl_ibt = FALSE]
    ELSE c

eval_strict(c) ==
    IF c.up.fl_ibt /\ c.up.fl_pps
    THEN [c EXCEPT !.pri = add_clock_sample(c.pri),
                   !.fedP = <<c.up.ibt_stamp, c.up.pps_recvt>>,
                   !.up.fl_pps = FALSE,
                   !.up.fl_ibt = FALSE]
    ELSE c

\* eval_pps_secondary feeding the in-band reference time: C9 fails of it
eval_pps_secondary_ibt(c) ==
    IF c.up.fl_pps2 /\ c.sec.started
    THEN [c EXCEPT !.sec = add_clock_sample(c.sec),
                   !.fedS = <<c.up.ibt_stamp, c.up.pps_recvt2>>,
                   !.up.ppscount2 = Min(PPS2_MAXCOUNT, c.up.ppscount2 + 2),
                   !.up.fl_pps2 = FALSE]
    ELSE c

eval_pps_secondary(c) ==
    IF c.up.fl_pps2
    THEN LET n2 == Min(PPS2_MAXCOUNT, c.up.ppscount2 + 2)
             u  == [c.up EXCEPT !.ppscount2 = n2, !.fl_pps2 = FALSE]
         IN  IF c.sec.started
             THEN [c EXCEPT
                     !.sec = [add_clock_sample(c.sec) EXCEPT
                                !.flag_pps = IF n2 = PPS2_MAXCOUNT /\ c.sec.flag1
                                             THEN TRUE ELSE c.sec.flag_pps],
                     !.fedS = <<c.up.pps_stamp2, c.up.pps_recvt2>>,
                     !.up = u]
             ELSE \* the peer is gone: the sample and the flag land in freed memory
                  [c EXCEPT !.up = u, !.uaf = TRUE]
    ELSE c

eval_serial(c) ==
    IF c.up.fl_ibt
    THEN [c EXCEPT !.pri = add_clock_sample(c.pri),
                   !.fedP = <<c.up.ibt_stamp, c.up.ibt_recvt>>,
                   !.up.fl_ibt = FALSE]
    ELSE c

\* eval_auto leaving the raw mode at the first good PPS sample: C7 fails of it
eval_auto_eager(c) ==
    IF ~c.up.fl_ibt THEN c
    ELSE LET n == IF c.up.fl_pps
                  THEN Min(PPS_MAXCOUNT, c.up.ppscount + PPS_INCCOUNT)
                  ELSE Max(0, c.up.ppscount - PPS_DECCOUNT)
             raw == IF c.up.fl_pps THEN FALSE
                    ELSE IF n = 0 THEN TRUE ELSE c.up.fl_rawibt
             d == [c EXCEPT !.up.ppscount = n, !.up.fl_rawibt = raw]
         IN  IF raw THEN eval_serial(d) ELSE eval_strict(d)

eval_auto(c) ==
    IF ~c.up.fl_ibt THEN c
    ELSE LET n == IF c.up.fl_pps
                  THEN Min(PPS_MAXCOUNT, c.up.ppscount + PPS_INCCOUNT)
                  ELSE Max(0, c.up.ppscount - PPS_DECCOUNT)
             raw == IF c.up.fl_pps
                    THEN IF n = PPS_MAXCOUNT /\ c.up.fl_rawibt
                         THEN FALSE ELSE c.up.fl_rawibt
                    ELSE IF n = 0 /\ ~c.up.fl_rawibt
                         THEN TRUE ELSE c.up.fl_rawibt
             d == [c EXCEPT !.up.ppscount = n, !.up.fl_rawibt = raw]
         IN  IF raw THEN eval_serial(d) ELSE eval_strict(d)

(***************************************************************************)
(* Records as gpsd_parse sees them after json_parse_record.  clock_ok and   *)
(* real_ok tell whether get_binary_time returns true for that pair of      *)
(* members; the TPV time is "none" when the member is missing and "bad"    *)
(* when convert_ascii_time rejects it; a VERSION record is ok when both    *)
(* proto_major and proto_minor are read without error.                     *)
(***************************************************************************)

\* local receive times (recv_time) a record can arrive with, in half seconds
RecvTimes == {0, 2}

\* reference times of TPV records, and clock/real times of TOFF and PPS records
TpvTimes == {10}

ToffClocks == {20}

ToffReals == {22}

PpsClocks == {30}

PpsReals == {32}

\* protocol versions <<proto_major, proto_minor>> a VERSION record announces
Protos == {<<3, 9>>, <<3, 10>>}

PROTO_VERSION(hi, lo) == hi * 65536 + lo

\* Of the records no handler tells apart one is kept: a TPV record without a
\* fix is not looked at for its time, a real time is not read after the clock
\* time failed, a protocol version is not looked at after it failed to parse.
Records ==
    {r \in [cls : {"TPV"}, mode : {0, 3}, time : {"none", "bad", "ok"}, stamp : TpvTimes] :
        r.mode < 2 => r.time = "ok"}
    \cup {r \in [cls : {"PPS"}, clock_ok : BOOLEAN, clock : PpsClocks,
                               real_ok : BOOLEAN, real : PpsReals] :
             ~r.clock_ok => ~r.real_ok}
    \cup {r \in [cls : {"TOFF"}, clock_ok : BOOLEAN, clock : ToffClocks,
                                real_ok : BOOLEAN, real : ToffReals] :
             ~r.clock_ok => ~r.real_ok}
    \cup {r \in [cls : {"VERSION"}, ok : BOOLEAN, proto : Protos] :
             ~r.ok => r.proto = <<3, 9>>}
    \cup [cls : {"WATCH", "OTHER", "BAD"}]

\* the record bumps up->tc_breply when handled by unit u
IsBadReply(u, rec) ==
    \/ rec.cls = "BAD"
    \/ rec.cls = "TPV" /\ rec.mode >= 2 /\ rec.time = "bad" /\ ~u.pf_toff
    \/ rec.cls \in {"PPS", "TOFF"} /\ ~u.fl_nosync
          /\ (~rec.clock_ok \/ ~rec.real_ok)

\* only up->fl_watch is set
process_watch(c, rec) == c

process_version(c, rec) ==
    IF ~rec.ok THEN c
    ELSE LET v == PROTO_VERSION(rec.proto[1], rec.proto[2])
         IN  [c EXCEPT !.up.pf_toff = (v >= PROTO_VERSION(3, 10))]

\* process_tpv taking the time of the record whether or not TOFF is expected:
\* C6 fails of it
process_tpv_always(c, rec, rtime) ==
    IF rec.mode < 2 \/ rec.time = "none"
    THEN [c EXCEPT !.up.fl_ibt = FALSE, !.up.fl_pps = FALSE, !.up.fl_nosync = TRUE]
    ELSE IF rec.time = "ok"
    THEN [c EXCEPT !.up.fl_nosync = FALSE,
                   !.up.ibt_stamp = rec.stamp,
                   !.up.ibt_local = rtime,
                   !.up.ibt_recvt = rtime - c.up.ibt_fudge,
                   !.up.fl_ibt = TRUE]
    ELSE [c EXCEPT !.up.fl_nosync = FALSE,
                   !.up.tc_breply = c.up.tc_breply + 1,
                   !.up.fl_ibt = FALSE]

process_tpv(c, rec, rtime) ==
    IF rec.mode < 2 \/ rec.time = "none"
    THEN [c EXCEPT !.up.fl_ibt = FALSE, !.up.fl_pps = FALSE, !.up.fl_nosync = TRUE]
    ELSE IF c.up.pf_toff
    THEN [c EXCEPT !.up.fl_nosync = FALSE]
    ELSE IF rec.time = "ok"
    THEN [c EXCEPT !.up.fl_nosync = FALSE,
                   !.up.ibt_stamp = rec.stamp,
                   !.up.ibt_local = rtime,
                   !.up.ibt_recvt = rtime - c.up.ibt_fudge,
                   !.up.fl_ibt = TRUE]
    ELSE [c EXCEPT !.up.fl_nosync = FALSE,
                   !.up.tc_breply = c.up.tc_breply + 1,
                   !.up.fl_ibt = FALSE]

process_pps(c, rec, rtime) ==
    IF c.up.fl_nosync THEN c
    ELSE IF ~rec.clock_ok
    THEN [c EXCEPT !.up.pps_local = rtime, !.up.tc_breply = c.up.tc_breply + 1]
    ELSE IF ~rec.real_ok
    THEN [c EXCEPT !.up.pps_local = rtime, !.up.pps_recvt2 = rec.clock,
                   !.up.tc_breply = c.up.tc_breply + 1]
    ELSE LET recvt == rec.clock - c.up.pps_fudge
         IN  [c EXCEPT !.up.pps_local = rtime,
                       !.up.pps_stamp2 = rec.real,
                       !.up.pps_recvt2 = rec.clock - c.up.pps_fudge2,
                       !.up.pps_recvt = recvt,
                       \* save_ltc(up->pps_peer->procptr, ...)
                       !.uaf = c.uaf \/ Dangling(c.up, c.sec),
                       !.up.fl_pps = ~c.pri.flag2,
                       !.up.fl_pps2 = TRUE]

process_toff(c, rec, rtime) ==
    LET d == [c EXCEPT !.up.pf_toff = TRUE]
    IN  IF c.up.fl_nosync THEN d
        ELSE IF ~rec.clock_ok
        THEN [d EXCEPT !.up.tc_breply = c.up.tc_breply + 1]
        ELSE IF ~rec.real_ok
        THEN [d EXCEPT !.up.ibt_recvt = rec.clock,
                       !.up.tc_breply = c.up.tc_breply + 1]
        ELSE [d EXCEPT !.up.ibt_stamp = rec.real,
                       !.up.ibt_recvt = rec.clock - c.up.ibt_fudge,
                       !.up.ibt_local = rtime,
                       !.up.fl_ibt = TRUE]

\* lfpsint(): the integral part of a time stamp difference
lfpsint(d) == d \div 2

\* "check PPS vs. IBT receive times", weed out stale time stamps and flags
WeedStale(c) ==
    IF c.up.fl_pps /\ c.up.fl_ibt
    THEN LET diff == c.up.ibt_local - c.up.pps_local
         IN  IF lfpsint(diff) > 0 THEN [c EXCEPT !.up.fl_pps = FALSE]
             ELSE IF lfpsint(diff) < 0 THEN [c EXCEPT !.up.fl_ibt = FALSE]
             ELSE c
    ELSE c

\* "dispatch to the mode-dependent processing functions"
EvalMode(c) ==
    IF c.up.mode = MODE_OP_STRICT THEN eval_strict(c)
    ELSE IF c.up.mode = MODE_OP_AUTO THEN eval_auto(c)
    ELSE eval_serial(c)

\* "if possible, feed the PPS side channel"; the call reads up->pps_peer->procptr
FeedSecondary(c) ==
    IF c.up.pps_peer # "NULL"
    THEN eval_pps_secondary([c EXCEPT !.uaf = c.uaf \/ Dangling(c.up, c.sec)])
    ELSE c

\* the state of the unit when gpsd_parse reaches the mode dispatch
BeforeEval(c, rec, rtime) ==
    LET p == IF rec.cls = "TPV" THEN process_tpv(c, rec, rtime)
             ELSE IF rec.cls = "PPS" THEN process_pps(c, rec, rtime)
             ELSE IF rec.cls = "TOFF" THEN process_toff(c, rec, rtime)
             ELSE IF rec.cls = "VERSION" THEN process_version(c, rec)
             ELSE process_watch(c, rec)
    IN  WeedStale(FeedSecondary(p))

\* gpsd_parse that also drops the pending time stamps on a bad line:
\* C13 fails of it
gpsd_parse_reset(c, rec, rtime) ==
    IF rec.cls = "BAD"
    THEN [c EXCEPT !.up.tc_breply = c.up.tc_breply + 1,
                   !.up.fl_ibt = FALSE, !.up.fl_pps = FALSE]
    ELSE IF rec.cls = "OTHER" THEN c
    ELSE EvalMode(BeforeEval(c, rec, rtime))

\* a record of class "BAD" is a line json_parse_record rejects or an object
\* without a string member "class"; "OTHER" is an object of an unknown class
gpsd_parse(c, rec, rtime) ==
    IF rec.cls = "BAD" THEN [c EXCEPT !.up.tc_breply = c.up.tc_breply + 1]
    ELSE IF rec.cls = "OTHER" THEN c
    ELSE EvalMode(BeforeEval(c, rec, rtime))

(***************************************************************************)
(* Sockets.  The state st is [up, pri, fds]; the outcome of the system     *)
(* calls is an input of the operation.                                     *)
(***************************************************************************)

Fds == 1 .. MaxFd

\* ai->ai_next
ai_next(a) == IF a < NumAddr THEN a + 1 ELSE 0

\* close(fd)
CloseFd(f, fd) == [open |-> f.open \ {fd}, reg |-> f.reg \ {fd}]

\* a retry preset that is raised while the countdown is left alone:
\* C12 fails of it
Backoff_keep(u) == [u EXCEPT !.tickpres = Min(u.tickpres + 5, TICKOVER_HIGH)]

\* up->tickover = up->tickpres; up->tickpres = min(up->tickpres + 5, TICKOVER_HIGH);
Backoff(u) == [u EXCEPT !.tickover = u.tickpres,
                        !.tickpres = Min(u.tickpres + 5, TICKOVER_HIGH)]

\* gpsd_stop_socket that leaves the socket open and registered: C11 fails of it
gpsd_stop_socket_open(st) ==
    [st EXCEPT !.up = Backoff(st.up), !.ev = @ \cup {"stop"}]

gpsd_stop_socket(st) ==
    LET closed == IF st.pri.io_fd # -1
                  THEN [st EXCEPT !.fds = CloseFd(st.fds, st.pri.io_fd),
                                  !.pri.io_fd = -1]
                  ELSE st
    IN  [closed EXCEPT !.up = [Backoff(st.up) EXCEPT !.fl_ibt = FALSE,
                                                     !.fl_pps = FALSE],
                       !.ev = @ \cup {"stop"}]

InitOutcomes == {"nosocket", "nofcntl", "inprogress", "noconnect", "connected", "noreg"}

gpsd_init_socket(st, head, outcome) ==
    LET ai   == IF st.up.addr = 0 THEN head ELSE st.up.addr
        free == Fds \ st.fds.open
        fd   == CHOOSE f \in free : \A g \in free : f <= g
        drew == [st EXCEPT !.up.addr = ai_next(ai), !.ev = @ \cup {"init"}]
        no_socket == [drew EXCEPT !.up = Backoff([drew.up EXCEPT !.fdt = -1]),
                                  !.ev = @ \cup {"fail"}]
    IN  IF outcome = "nosocket" \/ free = {}
        THEN no_socket
        ELSE IF outcome \in {"nofcntl", "noconnect"}
        THEN \* the socket is created, and closed again at no_socket
             no_socket
        ELSE IF outcome = "inprogress"
        THEN [drew EXCEPT !.up.fdt = fd, !.fds.open = st.fds.open \cup {fd}]
        ELSE IF outcome = "connected"
        THEN [drew EXCEPT !.pri.io_fd = fd, !.up.fdt = -1,
                          !.fds = [open |-> st.fds.open \cup {fd},
                                   reg  |-> st.fds.reg \cup {fd}],
                          !.ev = @ \cup {"connect"}]
        ELSE \* io_addclock failed: close(pp->io.fd) at no_socket
             no_socket

TestOutcomes == {"pending", "error", "connected", "noreg"}

gpsd_test_socket(st, outcome) ==
    IF outcome = "pending" THEN st
    ELSE IF outcome = "error"
    THEN [st EXCEPT !.fds = CloseFd(st.fds, st.up.fdt),
                    !.up = Backoff([st.up EXCEPT !.fdt = -1]),
                    !.ev = @ \cup {"fail"}]
    ELSE IF outcome = "connected"
    THEN [st EXCEPT !.pri.io_fd = st.up.fdt,
                    !.up.fdt = -1,
                    !.up.tickover = TICKOVER_LOW,
                    !.fds.reg = st.fds.reg \cup {st.up.fdt},
                    !.ev = @ \cup {"connect"}]
    ELSE \* io_addclock failed: up->fdt is -1 by now, nothing is closed
         [st EXCEPT !.pri.io_fd = st.up.fdt,
                    !.up = Backoff([st.up EXCEPT !.fdt = -1]),
                    !.ev = @ \cup {"fail"}]

\* the outcomes the system calls of gpsd_test_socket can have on up->fdt
TestOutcomesOf(st) ==
    IF st.up.fdt \in st.fds.open THEN TestOutcomes ELSE {"pending", "error"}

timer_primary(st, head, io, to) ==
    LET t  == IF st.up.tickover # 0 THEN st.up.tickover - 1 ELSE 0
        s  == [st EXCEPT !.up.tickover = t]
    IN  IF t = 4
        THEN IF s.pri.io_fd # -1
             THEN [s EXCEPT !.ev = @ \cup {"livecheck"}]   \* write(pp->io.fd, "?VERSION;")
             ELSE IF s.up.fdt # -1 THEN gpsd_test_socket(s, to)
             ELSE s
        ELSE IF t = 0
        THEN IF s.pri.io_fd # -1 THEN gpsd_stop_socket(s)
             ELSE IF s.up.fdt # -1 THEN gpsd_test_socket(s, to)
             ELSE IF head # 0 THEN gpsd_init_socket(s, head, io)
             ELSE s
        ELSE IF s.pri.io_fd = -1 /\ s.up.fdt # -1 THEN gpsd_test_socket(s, to)
             ELSE s

\* timer_secondary that only counts down: C10 fails of it
timer_secondary_noflush(c) == [c EXCEPT !.up.ppscount2 = Max(0, c.up.ppscount2 - 1)]

timer_secondary(c) ==
    LET n == Max(0, c.up.ppscount2 - 1)
    IN  IF n = 0
        THEN [c EXCEPT !.up.ppscount2 = n,
                       !.sec.pending = 0,      \* pp->coderecv = pp->codeproc
                       !.sec.flag_pps = FALSE]
        ELSE [c EXCEPT !.up.ppscount2 = n]

\* with samples pending, refclock_receive hands them to the core
poll_primary(c) ==
    [c EXCEPT !.pri.pending = 0, !.up.tc_breply = 0]

poll_secondary(c) ==
    IF c.sec.pending # 0
    THEN [c EXCEPT !.sec.pending = 0]
    ELSE [c EXCEPT !.sec.flag_pps = FALSE]

(***************************************************************************)
(* Start, shutdown and control                                             *)
(***************************************************************************)

\* MODE_OP_MODE(x): x & 0x03
MODE_OP_MODE(x) == x % 4

CfgModes == 0 .. 3

FudgeTimes == {0, 1}

\* gpsd_start for the peer "pri" (unit < 128) or "sec" (unit >= 128): the unit
\* afterwards and whether the start succeeded.  devok: the device name could be
\* built and names a character device.
gpsd_start(u, head, who, cfgmode, devok) ==
    IF head = 0 THEN [ok |-> FALSE, up |-> u]              \* gpsd_init_check
    ELSE IF u.refcount = 0 /\ ~devok THEN [ok |-> FALSE, up |-> u]
    ELSE LET found == IF u.refcount = 0 THEN NewUnit(head)
                      ELSE [u EXCEPT !.refcount = u.refcount + 1]
             m0    == MODE_OP_MODE(cfgmode)
             moded == [found EXCEPT !.mode = IF m0 > MODE_OP_MAXVAL THEN 0 ELSE m0]
         IN  IF found.addr = 0
             THEN \* dev_fail: the use count is given back
                  [ok |-> FALSE, up |-> u]
             ELSE IF who = "sec"
             THEN [ok |-> TRUE, up |-> [moded EXCEPT !.pps_peer = "SEC"]]
             ELSE [ok |-> TRUE, up |-> enter_opmode(moded, moded.mode)]

\* "decrement use count and eventually remove this unit"
Unref(u) == IF u.refcount = 1 THEN NoUnit ELSE [u EXCEPT !.refcount = u.refcount - 1]

\* gpsd_shutdown of the primary peer; differs is the value of
\* pp != up->pps_peer->procptr
gpsd_shutdown_primary(st, differs) ==
    LET closing == st.up.pps_peer # "NULL" /\ differs
        f1 == IF closing /\ st.pri.io_fd # -1
              THEN CloseFd(st.fds, st.pri.io_fd) ELSE st.fds
        f2 == IF closing /\ st.up.fdt # -1
              THEN CloseFd(f1, st.up.fdt) ELSE f1
    IN  [up |-> Unref(st.up), pri |-> NoPrimary, fds |-> f2]

\* gpsd_shutdown of the secondary peer: pp is up->pps_peer->procptr
gpsd_shutdown_secondary(u) == Unref(u)

gpsd_control_primary(u, cfgmode, fudge1, fudge2) ==
    LET f == [u EXCEPT !.pps_fudge = fudge1, !.ibt_fudge = fudge2]
    IN  IF MODE_OP_MODE(cfgmode) # f.mode
        THEN enter_opmode([leave_opmode(f, f.mode) EXCEPT !.mode = MODE_OP_MODE(cfgmode)],
                          MODE_OP_MODE(cfgmode))
        ELSE f

gpsd_control_secondary(c, fudge1, flag1) ==
    [c EXCEPT !.up.pps_fudge2 = fudge1,
              !.sec.flag1 = flag1,
              !.sec.flag_pps = IF ~flag1 THEN FALSE ELSE c.sec.flag_pps]

(***************************************************************************)
(* The driver as the daemon calls it: one action per entry point.  The     *)
(* parameters of an action are the sets its inputs are drawn from.         *)
(***************************************************************************)

NoEval == [cls |-> "none", ibt |-> FALSE, pps |-> FALSE,
           fedP |-> NoSample, fedS |-> NoSample]

Ctx == [up |-> up, pri |-> pri, sec |-> sec,
        fedP |-> NoSample, fedS |-> NoSample, uaf |-> FALSE]

Sock == [up |-> up, pri |-> pri, fds |-> fds, ev |-> {}]

\* the primary peer is connected: its socket is registered with the I/O engine
Online == pri.started /\ pri.io_fd \in fds.reg

\* tmr.quiet: timer ticks of the connected primary peer since the connection
\*            was registered or gpsd_receive was last called
\* tmr.ev:    what the last timer tick of the primary peer did: "livecheck"
\*            (?VERSION written), "stop" (gpsd_stop_socket), "init"
\*            (gpsd_init_socket), "connect" (socket registered), "fail"
\*            (the no_socket exit of gpsd_init_socket or gpsd_test_socket)
\* tmr.tries: number of gpsd_init_socket calls so far, modulo NumTries
NoTimer == [quiet |-> 0, ev |-> {}, tries |-> 0]

Running == fault = "none"

\* the driver code touches no state of the daemon's main program
NoDaemon == UNCHANGED <<daemon, helpers>>

NoAssembly == UNCHANGED <<buffer, maxwr, lastline>> /\ NoDaemon

\* the daemon before main() runs
NoMain == [pc |-> "off"]

NoCli == [pc |-> "off"]

NoWait == [pc |-> "off"]

NoCore == [pc |-> "off"]

\* no helper is being run on its own
NoJson == [pc |-> "off"]

NoClock == [pc |-> "off"]

NoPrecision == [pc |-> "off"]

HelpersIdle == jsn = NoJson /\ clk = NoClock /\ prc = NoPrecision

DaemonIdle ==
    /\ main = NoMain /\ cli = NoCli /\ ws = NoWait /\ core = NoCore
    /\ HelpersIdle

\* undefined behaviour took the process down
Fault ==
    /\ fault' = "segv"
    /\ UNCHANGED <<up, pri, sec, fds, s_gpsd_addr, idle2, toff_seen, tmr, last>>

StartPrimary(modes, flag2s) ==
    /\ Running /\ ~pri.started
    /\ \E cfgmode \in modes, flag2 \in flag2s, devok \in BOOLEAN :
         LET r == gpsd_start(up, s_gpsd_addr, "pri", cfgmode, devok)
         IN  /\ up' = r.up
             /\ pri' = IF r.ok THEN [NoPrimary EXCEPT !.started = TRUE, !.flag2 = flag2]
                        ELSE pri
             /\ toff_seen' = IF up.refcount = 0 THEN FALSE ELSE toff_seen
    /\ last' = NoEval
    /\ tmr' = [tmr EXCEPT !.quiet = 0, !.ev = {}]
    /\ UNCHANGED <<sec, fds, s_gpsd_addr, idle2, fault>>
    /\ NoAssembly

StartSecondary(modes, flag1s) ==
    /\ Running /\ ~sec.started
    /\ \E cfgmode \in modes, flag1 \in flag1s, devok \in BOOLEAN :
         LET r == gpsd_start(up, s_gpsd_addr, "sec", cfgmode, devok)
         IN  /\ up' = r.up
             /\ sec' = IF r.ok THEN [NoSecondary EXCEPT !.started = TRUE, !.flag1 = flag1]
                        ELSE sec
             /\ toff_seen' = IF up.refcount = 0 THEN FALSE ELSE toff_seen
    /\ last' = NoEval
    /\ idle2' = 0
    /\ UNCHANGED <<pri, fds, s_gpsd_addr, tmr, fault>>
    /\ NoAssembly

\* with up->pps_peer dangling, pp != up->pps_peer->procptr reads freed memory
ShutdownPrimary ==
    /\ Running /\ pri.started
    /\ \/ \E differs \in BOOLEAN :
            /\ Dangling(up, sec) \/ differs
            /\ LET r == gpsd_shutdown_primary(Sock, differs)
               IN  /\ up' = r.up /\ pri' = r.pri /\ fds' = r.fds
            /\ last' = NoEval
            /\ UNCHANGED <<sec, s_gpsd_addr, idle2, toff_seen, tmr, fault>>
       \/ Dangling(up, sec) /\ Fault
    /\ NoAssembly

ShutdownSecondary ==
    /\ Running /\ sec.started
    /\ up' = gpsd_shutdown_secondary(up)
    /\ sec' = NoSecondary
    /\ last' = NoEval
    /\ UNCHANGED <<pri, fds, s_gpsd_addr, idle2, toff_seen, tmr, fault>>
    /\ NoAssembly

ControlPrimary(modes, fudges, flag2s) ==
    /\ Running /\ pri.started
    /\ \E cfgmode \in modes, f1 \in fudges, f2 \in fudges, flag2 \in flag2s :
         /\ up' = gpsd_control_primary(up, cfgmode, f1, f2)
         /\ pri' = [pri EXCEPT !.flag2 = flag2]
    /\ last' = NoEval
    /\ UNCHANGED <<sec, fds, s_gpsd_addr, idle2, toff_seen, tmr, fault>>
    /\ NoAssembly

ControlSecondary(fudges, flag1s) ==
    /\ Running /\ sec.started
    /\ \E f1 \in fudges, flag1 \in flag1s :
         LET c == gpsd_control_secondary(Ctx, f1, flag1)
         IN  up' = c.up /\ sec' = c.sec
    /\ last' = NoEval
    /\ UNCHANGED <<pri, fds, s_gpsd_addr, idle2, toff_seen, tmr, fault>>
    /\ NoAssembly

\* gpsd_receive with a chunk that completes one line, the record rec, at rtime
ReceiveRecord(rec, rtime) ==
    /\ Running /\ pri.started /\ pri.io_fd \in fds.reg
    /\ IsBadReply(up, rec) => up.tc_breply < MaxTally
    /\ LET c  == gpsd_parse(Ctx, rec, rtime)
           be == IF rec.cls \in {"BAD", "OTHER"} THEN Ctx
                 ELSE BeforeEval(Ctx, rec, rtime)
       IN  \/ /\ up' = [c.up EXCEPT !.tickover = TICKOVER_LOW]
              /\ pri' = c.pri
              /\ sec' = c.sec
              /\ last' = [cls |-> rec.cls, ibt |-> be.up.fl_ibt, pps |-> be.up.fl_pps,
                          fedP |-> c.fedP, fedS |-> c.fedS]
              /\ idle2' = IF c.fedS # NoSample THEN 0 ELSE idle2
              /\ toff_seen' = (toff_seen \/ c.up.pf_toff)
              /\ tmr' = [tmr EXCEPT !.quiet = 0]
              /\ UNCHANGED <<fds, s_gpsd_addr, fault>>
           \/ c.uaf /\ Fault
    /\ NoAssembly

Receive(recs, rtimes) == \E rec \in recs, rtime \in rtimes : ReceiveRecord(rec, rtime)

\* gpsd_receive with a chunk that completes no line
ReceivePartial ==
    /\ Running /\ pri.started /\ pri.io_fd \in fds.reg
    /\ up' = [up EXCEPT !.tickover = TICKOVER_LOW]
    /\ tmr' = [tmr EXCEPT !.quiet = 0]
    /\ last' = NoEval
    /\ UNCHANGED <<pri, sec, fds, s_gpsd_addr, idle2, toff_seen, fault>>
    /\ NoAssembly

\* data arrives on a socket whose peer was removed while it stayed registered
ReceiveOrphan ==
    /\ Running
    /\ \E fd \in fds.reg : ~(pri.started /\ pri.io_fd = fd)
    /\ Fault
    /\ NoAssembly

PollPrimary ==
    /\ Running /\ pri.started
    /\ LET c == poll_primary(Ctx) IN up' = c.up /\ pri' = c.pri
    /\ last' = NoEval
    /\ UNCHANGED <<sec, fds, s_gpsd_addr, idle2, toff_seen, tmr, fault>>
    /\ NoAssembly

PollSecondary ==
    /\ Running /\ sec.started
    /\ LET c == poll_secondary(Ctx) IN up' = c.up /\ pri' = c.pri /\ sec' = c.sec
    /\ last' = NoEval
    /\ UNCHANGED <<fds, s_gpsd_addr, idle2, toff_seen, tmr, fault>>
    /\ NoAssembly

TimerPrimary(ios, tos) ==
    /\ Running /\ pri.started
    /\ \E io \in ios, to \in tos \cap TestOutcomesOf(Sock) :
         LET r == timer_primary(Sock, s_gpsd_addr, io, to)
         IN  /\ up' = r.up /\ pri' = r.pri /\ fds' = r.fds
             /\ tmr' = [quiet |-> IF "connect" \in r.ev THEN 0
                                  ELSE IF Online THEN Min(tmr.quiet + 1, TICKOVER_HIGH)
                                  ELSE tmr.quiet,
                        ev    |-> r.ev,
                        tries |-> IF "init" \in r.ev THEN (tmr.tries + 1) % NumTries
                                  ELSE tmr.tries]
    /\ last' = NoEval
    /\ UNCHANGED <<sec, s_gpsd_addr, idle2, toff_seen, fault>>
    /\ NoAssembly

TimerSecondary ==
    /\ Running /\ sec.started
    /\ LET c == timer_secondary(Ctx) IN up' = c.up /\ pri' = c.pri /\ sec' = c.sec
    /\ idle2' = Min(PPS2_MAXCOUNT, idle2 + 1)
    /\ last' = NoEval
    /\ UNCHANGED <<fds, s_gpsd_addr, toff_seen, tmr, fault>>
    /\ NoAssembly

(***************************************************************************)
(* The complete driver                                                     *)
(***************************************************************************)

Init ==
    /\ buffer = <<>> /\ maxwr = -1 /\ lastline = <<>>
    /\ fault = "none"
    /\ up = NoUnit /\ pri = NoPrimary /\ sec = NoSecondary
    /\ fds = [open |-> {}, reg |-> {}]
    /\ s_gpsd_addr \in {0, 1}        \* gpsd_init: getaddrinfo failed or not
    /\ idle2 = 0 /\ toff_seen = FALSE /\ tmr = NoTimer /\ last = NoEval
    /\ DaemonIdle

Next ==
    \/ StartPrimary(CfgModes, BOOLEAN) \/ StartSecondary(CfgModes, BOOLEAN)
    \/ ShutdownPrimary \/ ShutdownSecondary
    \/ ControlPrimary(CfgModes, FudgeTimes, BOOLEAN)
    \/ ControlSecondary(FudgeTimes, BOOLEAN)
    \/ Receive(Records, RecvTimes) \/ ReceivePartial \/ ReceiveOrphan
    \/ PollPrimary \/ PollSecondary
    \/ TimerPrimary(InitOutcomes, TestOutcomes) \/ TimerSecondary

Spec == Init /\ [][Next]_vars

(***************************************************************************)
(* Life cycle and sockets: start and shutdown of both peers, the primary   *)
(* timer with every outcome of the socket calls, data that completes no    *)
(* record.                                                                 *)
(***************************************************************************)

NextLife ==
    \/ StartPrimary({MODE_OP_IBT}, {FALSE}) \/ StartSecondary({MODE_OP_IBT}, {FALSE})
    \/ ShutdownPrimary \/ ShutdownSecondary
    \/ TimerPrimary(InitOutcomes, TestOutcomes)
    \/ ReceivePartial \/ ReceiveOrphan

SpecLife == Init /\ [][NextLife]_vars

(***************************************************************************)
(* The data path.  The primary peer was started with mode m and its timer  *)
(* found gpsd listening: the state gpsd_start and the first timer tick     *)
(* leave behind.                                                           *)
(***************************************************************************)

Connected(m) ==
    timer_primary([up  |-> gpsd_start(NoUnit, 1, "pri", m, TRUE).up,
                   pri |-> [NoPrimary EXCEPT !.started = TRUE],
                   fds |-> [open |-> {}, reg |-> {}], ev |-> {}],
                  1, "connected", "pending")

InitConnected(modes) ==
    /\ buffer = <<>> /\ maxwr = -1 /\ lastline = <<>>
    /\ fault = "none"
    /\ \E m \in modes :
         /\ up = Connected(m).up
         /\ pri = Connected(m).pri
         /\ fds = Connected(m).fds
    /\ sec = NoSecondary
    /\ s_gpsd_addr = 1
    /\ idle2 = 0 /\ toff_seen = FALSE /\ tmr = NoTimer /\ last = NoEval
    /\ DaemonIdle

\* records that are parsed without error
GoodRecords ==
    {r \in Records :
        /\ r.cls # "BAD"
        /\ r.cls = "TPV" => r.time # "bad"
        /\ r.cls \in {"PPS", "TOFF"} => r.clock_ok /\ r.real_ok
        /\ r.cls = "VERSION" => r.ok}

\* the records the AUTO mode account is followed on
AutoRecords == {r \in GoodRecords : r.cls \in {"TPV", "PPS", "WATCH"}}

(***************************************************************************)
(* The secondary channel: a primary peer in the default mode receives      *)
(* records while the secondary peer is started, polled, ticked,            *)
(* reconfigured and shut down.  The secondary channel reads no local       *)
(* receive time, so one receive time is followed.                          *)
(***************************************************************************)

InitSec == InitConnected({MODE_OP_IBT})

NextSec ==
    \/ Receive(GoodRecords, {0})
    \/ StartSecondary({MODE_OP_IBT}, BOOLEAN) \/ ShutdownSecondary
    \/ ControlSecondary({0}, BOOLEAN)
    \/ PollSecondary \/ TimerSecondary

SpecSec == InitSec /\ [][NextSec]_vars

(***************************************************************************)
(* The primary channel: the primary peer, configured for one of the three  *)
(* modes, receives every record at every receive time and is polled.       *)
(***************************************************************************)

InitPri == InitConnected({MODE_OP_IBT, MODE_OP_STRICT, MODE_OP_AUTO})

NextPri == Receive(Records, RecvTimes) \/ PollPrimary

SpecPri == InitPri /\ [][NextPri]_vars

(***************************************************************************)
(* The AUTO mode account: a primary peer in AUTO mode receives records,    *)
(* is polled, switched to another mode and back, and is restarted while a  *)
(* secondary peer holds the unit.  The timer is left out, so a restarted   *)
(* primary peer stays without connection.                                  *)
(***************************************************************************)

InitAuto == InitConnected({MODE_OP_AUTO})

NextAuto ==
    \/ Receive(AutoRecords, RecvTimes)
    \/ PollPrimary
    \/ ControlPrimary({MODE_OP_IBT, MODE_OP_AUTO}, {0}, {FALSE})
    \/ StartSecondary({MODE_OP_AUTO}, {FALSE})
    \/ ShutdownPrimary \/ StartPrimary({MODE_OP_AUTO}, {FALSE})

SpecAuto == InitAuto /\ [][NextAuto]_vars

(***************************************************************************)
(* The connection: the primary peer is started and its timer ticks, with   *)
(* every outcome of the socket calls; while it is connected data arrives,  *)
(* as part of a line or as a complete WATCH record.  SpecRetry adds that    *)
(* the timer of a started peer keeps ticking.                              *)
(***************************************************************************)

TimerRecords == {r \in GoodRecords : r.cls = "WATCH"}

PrimaryTick == TimerPrimary(InitOutcomes, TestOutcomes)

PrimaryData == ReceivePartial \/ Receive(TimerRecords, {0})

NextTimer ==
    \/ StartPrimary({MODE_OP_IBT}, {FALSE})
    \/ PrimaryTick
    \/ ReceivePartial
    \/ Receive(TimerRecords, {0})

SpecTimer == Init /\ [][NextTimer]_vars

SpecRetry == Init /\ [][NextTimer]_vars /\ WF_vars(PrimaryTick)

(***************************************************************************)
(* Bad lines: a primary peer in one of the three modes receives lines that  *)
(* are no JSON object or have no class between good TPV and PPS records,   *)
(* is polled, and gets a secondary peer.                                   *)
(***************************************************************************)

ErrRecords ==
    {r \in Records : r.cls = "BAD"}
    \cup {r \in GoodRecords : r.cls \in {"TPV", "PPS"}}

InitBad == InitConnected({MODE_OP_IBT, MODE_OP_STRICT, MODE_OP_AUTO})

NextBad ==
    \/ Receive(ErrRecords, RecvTimes)
    \/ PollPrimary
    \/ StartSecondary({MODE_OP_IBT, MODE_OP_STRICT, MODE_OP_AUTO}, {TRUE})

SpecBad == InitBad /\ [][NextBad]_vars

(***************************************************************************)
(* Record assembly: gpsd_receive followed character by character.  The     *)
(* lines are records the driver cannot parse (bad) or of a class it does   *)
(* not know.  A write beyond the end of up->buffer, the last member of     *)
(* the unit, is undefined behaviour: the process goes on or faults.        *)
(***************************************************************************)

RECURSIVE CountLines(_)
CountLines(chunk) ==
    IF chunk = <<>> THEN 0
    ELSE (IF Head(chunk) = "n" THEN 1 ELSE 0) + CountLines(Tail(chunk))

ReceiveChunk ==
    /\ Running /\ pri.started /\ pri.io_fd \in fds.reg
    /\ \E chunk \in Chunks(MaxChunk) \ {<<>>}, bad \in BOOLEAN :
         LET st == AssembleChunk(buffer, maxwr, lastline, chunk)
             n  == IF bad THEN CountLines(chunk) ELSE 0
         IN  /\ Len(st.buf) <= MAX_PDU_LEN - 1 + MaxOverrun
             /\ bad => n > 0 /\ up.tc_breply + n <= MaxTally
             /\ \/ /\ buffer' = st.buf
                   /\ maxwr' = st.maxwr
                   /\ lastline' = st.line
                   /\ up' = [up EXCEPT !.tc_breply = up.tc_breply + n,
                                       !.tickover = TICKOVER_LOW]
                   /\ tmr' = [tmr EXCEPT !.quiet = 0]
                   /\ last' = NoEval
                   /\ UNCHANGED <<pri, sec, fds, s_gpsd_addr, idle2, toff_seen, fault>>
                   /\ NoDaemon
                \/ st.maxwr > MAX_PDU_LEN - 1 /\ Fault /\ NoAssembly

InitRecv == InitConnected({MODE_OP_IBT})

NextRecv == ReceiveChunk \/ PollPrimary

SpecRecv == InitRecv /\ [][NextRecv]_vars

(***************************************************************************)
(* The daemon's main loop (mainloop, src/ntpd/ntpd_nonroot.c).  main.pc is  *)
(* the statement the loop is at; a signal handler runs between any two     *)
(* statements.  io_handler and timer are not part of the sources: the      *)
(* first is a wait that returns, the second counts current_time, the       *)
(* seconds since startup, and either may change the leap indicator.        *)
(* Times are counted in units of MdnsGap / 60 minutes.                     *)
(***************************************************************************)

\* the 60 seconds between two mDNS registration attempts
MdnsGap == 2

\* mdnstries, the number of failed mDNS registrations tolerated (5)
MaxMdnsTries == 2

\* the uptime the main loop is followed for
MaxUptime == 4

\* SIGINT, SIGQUIT, SIGBUS, SIGTERM
QuitSignals == {2, 3, 7, 15}

\* main() has set up the signal handlers and calls mainloop; m: the option -m
MainLoopEntry(m) ==
    [pc |-> "quit", sawQuit |-> FALSE, sawALRM |-> FALSE, sawDNS |-> FALSE,
     sawHUP |-> FALSE, signo |-> 0,
     current_time |-> 0, synced |-> FALSE,
     mdnsreg |-> m, mdnstries |-> MaxMdnsTries, mdns |-> FALSE,
     tried |-> -1, tries |-> 0, lastok |-> FALSE,
     finish |-> 0, cleaned |-> FALSE, status |-> -1]

\* a bool read as an int
BoolInt(b) == IF b THEN 1 ELSE 0

\* a handler that raises the flag and forgets the signal: C14 fails of it
catchQuit_flagonly(m, sig) == [m EXCEPT !.sawQuit = TRUE]

catchQuit(m, sig) == [m EXCEPT !.sawQuit = TRUE, !.signo = sig]

catchHUP(m) == [m EXCEPT !.sawHUP = TRUE]

catchDNS(m) == [m EXCEPT !.sawDNS = TRUE]

\* the handler of SIGALRM
catchALRM(m) == [m EXCEPT !.sawALRM = TRUE]

finish_safe(m, sig) ==
    [m EXCEPT !.pc = "exit", !.finish = sig, !.cleaned = TRUE, !.status = 0]

\* timer(): one more second of uptime
timer(m) == [m EXCEPT !.current_time = @ + 1]

\* the mDNS block at the end of the loop body; ok: DNSServiceRegister succeeded.
\* mdnsreg is a bool: mdnsreg = current_time stores current_time != 0.
mdns_register(m, ok) ==
    IF /\ m.mdnsreg
       /\ m.current_time - BoolInt(m.mdnsreg) > MdnsGap
       /\ m.mdnstries # 0
       /\ m.synced
    THEN LET a == [m EXCEPT !.mdnsreg = (m.current_time # 0),
                            !.tried = m.current_time,
                            !.tries = m.tries + 1,
                            !.lastok = ok]
         IN  IF ok THEN [a EXCEPT !.mdns = TRUE, !.mdnsreg = FALSE]
             ELSE [a EXCEPT !.mdnstries = m.mdnstries - 1]
    ELSE m

\* one statement of the loop body
mainloop(m, ok, sync) ==
    IF m.pc = "quit"
    THEN IF m.sawQuit THEN finish_safe(m, m.signo) ELSE [m EXCEPT !.pc = "wait"]
    ELSE IF m.pc = "wait"
    THEN IF ~m.sawALRM THEN [m EXCEPT !.pc = "io"] ELSE [m EXCEPT !.pc = "alarm"]
    ELSE IF m.pc = "io"
    THEN [m EXCEPT !.pc = "alarm", !.synced = sync]
    ELSE IF m.pc = "alarm"
    THEN IF m.sawALRM THEN [m EXCEPT !.sawALRM = FALSE, !.pc = "timer"]
         ELSE [m EXCEPT !.pc = "dns"]
    ELSE IF m.pc = "timer"
    THEN [timer(m) EXCEPT !.pc = "dns", !.synced = sync]
    ELSE IF m.pc = "dns"
    THEN [m EXCEPT !.sawDNS = FALSE, !.pc = "hup"]
    ELSE IF m.pc = "hup"
    THEN [m EXCEPT !.sawHUP = FALSE, !.pc = "mdns"]
    ELSE [mdns_register(m, ok) EXCEPT !.pc = "quit"]

NoDriver == UNCHANGED <<driver, helpers>>

MainRuns == main.pc \notin {"off", "exit"}

MainStep ==
    /\ MainRuns
    /\ \E ok \in BOOLEAN, sync \in BOOLEAN :
         /\ main.pc \notin {"io", "timer"} => sync = main.synced
         /\ main.pc # "mdns" => ok
         /\ main' = mainloop(main, ok, sync)
    /\ NoDriver /\ UNCHANGED <<cli, ws, core>>

QuitSignal ==
    /\ MainRuns
    /\ \E sig \in QuitSignals : main' = catchQuit(main, sig)
    /\ NoDriver /\ UNCHANGED <<cli, ws, core>>

AlarmSignal ==
    /\ MainRuns /\ main.current_time < MaxUptime
    /\ main' = catchALRM(main)
    /\ NoDriver /\ UNCHANGED <<cli, ws, core>>

HupSignal ==
    /\ MainRuns
    /\ main' = catchHUP(main)
    /\ NoDriver /\ UNCHANGED <<cli, ws, core>>

DnsSignal ==
    /\ MainRuns
    /\ main' = catchDNS(main)
    /\ NoDriver /\ UNCHANGED <<cli, ws, core>>

\* no peer of the driver is started
DriverOff ==
    /\ buffer = <<>> /\ maxwr = -1 /\ lastline = <<>>
    /\ fault = "none"
    /\ up = NoUnit /\ pri = NoPrimary /\ sec = NoSecondary
    /\ fds = [open |-> {}, reg |-> {}]
    /\ s_gpsd_addr = 0
    /\ idle2 = 0 /\ toff_seen = FALSE /\ tmr = NoTimer /\ last = NoEval

DriverIdle == DriverOff /\ HelpersIdle

InitMain ==
    /\ DriverIdle
    /\ \E m \in BOOLEAN : main = MainLoopEntry(m)
    /\ cli = NoCli /\ ws = NoWait /\ core = NoCore

NextMain == MainStep \/ QuitSignal \/ AlarmSignal \/ HupSignal \/ DnsSignal

SpecMain == InitMain /\ [][NextMain]_vars

\* the loop keeps running: every statement, io_handler and timer included, returns
SpecMainFair == InitMain /\ [][NextMain]_vars /\ WF_vars(MainStep)

(***************************************************************************)
(* The command line (parse_cmdline_opts and the address family choice of   *)
(* main, src/ntpd/ntpd_nonroot.c).  Of the options those are followed that *)
(* set opt_ipv4, opt_ipv6 and nofork, print the usage (-h) or are refused  *)
(* (-b); cli.args is what getopt has still to deliver.                     *)
(***************************************************************************)

\* longest command line followed
MaxArgs == 3

Options == {"4", "6", "n", "h", "b"}

CmdLines == UNION {[1 .. n -> Options] : n \in 0 .. MaxArgs}

\* main() calls parse_cmdline_opts(argc, argv)
CliEntry(argv, v4, v6) ==
    [pc |-> "parse", args |-> argv, opt_ipv4 |-> FALSE, opt_ipv6 |-> FALSE,
     nofork |-> FALSE, ipv4_works |-> v4, ipv6_works |-> v6, status |-> -1]

\* one pass of the getopt loop, for the option op
parse_option(c, op) ==
    IF op = "4" THEN [c EXCEPT !.opt_ipv4 = TRUE]
    ELSE IF op = "6" THEN [c EXCEPT !.opt_ipv6 = TRUE]
    ELSE IF op = "n" THEN [c EXCEPT !.nofork = TRUE]
    ELSE IF op = "h" THEN [c EXCEPT !.pc = "exit", !.status = 0]
    ELSE [c EXCEPT !.pc = "exit", !.status = 1]

RECURSIVE parse_cmdline_opts(_)
parse_cmdline_opts(c) ==
    IF c.pc = "exit" THEN c
    ELSE IF c.args = <<>> THEN [c EXCEPT !.pc = "parsed"]
    ELSE parse_cmdline_opts([parse_option(c, Head(c.args)) EXCEPT !.args = Tail(c.args)])

\* main: the address families the daemon goes on with
select_family(c) ==
    IF c.ipv4_works /\ c.ipv6_works
    THEN IF c.opt_ipv4 THEN [c EXCEPT !.ipv6_works = FALSE, !.pc = "run"]
         ELSE IF c.opt_ipv6 THEN [c EXCEPT !.ipv4_works = FALSE, !.pc = "run"]
         ELSE [c EXCEPT !.pc = "run"]
    ELSE IF ~c.ipv4_works /\ ~c.ipv6_works
    THEN [c EXCEPT !.pc = "exit", !.status = 1]
    ELSE [c EXCEPT !.pc = "run"]

ParseCmdline ==
    /\ cli.pc = "parse"
    /\ cli' = parse_cmdline_opts(cli)
    /\ NoDriver /\ UNCHANGED <<main, ws, core>>

SelectFamily ==
    /\ cli.pc = "parsed"
    /\ cli' = select_family(cli)
    /\ NoDriver /\ UNCHANGED <<main, ws, core>>

InitCli ==
    /\ DriverIdle
    /\ \E argv \in CmdLines, v4 \in BOOLEAN, v6 \in BOOLEAN : cli = CliEntry(argv, v4, v6)
    /\ main = NoMain /\ ws = NoWait /\ core = NoCore

NextCli == ParseCmdline \/ SelectFamily

SpecCli == InitCli /\ [][NextCli]_vars

(***************************************************************************)
(* The parent side of -w/--wait-sync (wait_child_sync_if,                  *)
(* src/ntpd/ntpd_nonroot.c).  ws.now is the wall clock time(NULL) reads,    *)
(* in seconds since the call; it does not step.  ws.readable: the child    *)
(* has written to the pipe.  While the parent waits in pselect the clock   *)
(* runs, the child may write and signals may arrive.                       *)
(***************************************************************************)

\* longest wait time (-w) followed
MaxWait == 2

\* how far the clock is followed beyond the longest deadline
MaxLate == 1

ETIMEDOUT == 110

\* the errors pselect fails with, other than EINTR: EBADF, ENOMEM
PselectErrors == {<<"error", 9>>, <<"error", 12>>}

\* main() calls wait_child_sync_if(pipe_fds[0], wait_sync)
WaitEntry(w) ==
    [pc |-> "entry", wait_sync1 |-> w, now |-> 0, readable |-> FALSE,
     wait_end_time |-> 0, wait_rem |-> 0, since |-> 0,
     intr |-> FALSE, blind |-> FALSE, exit_code |-> -1]

\* wait_rem = (wait_end_time > cur_time) ? (wait_end_time - cur_time) : 0
wait_rem(s) ==
    IF s.wait_end_time > s.now THEN s.wait_end_time - s.now ELSE 0

\* the statements between two returns of pselect; rc: what pselect returned,
\* <<"readable", 0>>, <<"timeout", 0>>, <<"eintr", 0>> or <<"error", errno>>
wait_child_sync_if(s, rc) ==
    IF s.pc = "entry"
    THEN IF s.wait_sync1 = 0 THEN [s EXCEPT !.pc = "ret", !.exit_code = 0]
         ELSE LET b == [s EXCEPT !.wait_end_time = s.now + s.wait_sync1]
              IN  [b EXCEPT !.wait_rem = wait_rem(b), !.since = s.now,
                            !.pc = "select"]
    ELSE IF s.pc = "select"
    THEN IF rc[1] = "eintr"
         THEN \* continue: on to the loop condition
              IF s.wait_rem > 0
              THEN [s EXCEPT !.wait_rem = wait_rem(s), !.since = s.now,
                             !.intr = TRUE]
              ELSE [s EXCEPT !.pc = "ret", !.exit_code = ETIMEDOUT,
                             !.intr = TRUE]
         ELSE IF rc[1] = "timeout" THEN [s EXCEPT !.pc = "confirm"]
         ELSE IF rc[1] = "readable" THEN [s EXCEPT !.pc = "ret", !.exit_code = 0]
         ELSE [s EXCEPT !.pc = "ret", !.exit_code = rc[2]]
    ELSE \* the second pselect, with a zero timeout
         IF rc[1] = "timeout" THEN [s EXCEPT !.pc = "ret", !.exit_code = ETIMEDOUT]
         ELSE IF rc[1] = "readable" THEN [s EXCEPT !.pc = "ret", !.exit_code = 0]
         ELSE \* rc is -1: taken for readable
              [s EXCEPT !.pc = "ret", !.exit_code = 0, !.blind = TRUE]

\* what pselect can return to the waiting parent
PselectReturns(s) ==
    IF s.pc = "entry" THEN {<<"none", 0>>}
    ELSE (IF s.readable THEN {<<"readable", 0>>} ELSE {})
         \cup (IF s.pc = "confirm"
               THEN IF s.readable THEN {} ELSE {<<"timeout", 0>>}
               ELSE IF s.now >= s.since + s.wait_rem THEN {<<"timeout", 0>>} ELSE {})
         \cup {<<"eintr", 0>>}
         \cup PselectErrors

WaitStep ==
    /\ ws.pc \in {"entry", "select", "confirm"}
    /\ \E rc \in PselectReturns(ws) : ws' = wait_child_sync_if(ws, rc)
    /\ NoDriver /\ UNCHANGED <<main, cli, core>>

\* a second passes
WaitClock ==
    /\ ws.pc \in {"select"}
    /\ ws.now < MaxWait + MaxLate
    /\ ws' = [ws EXCEPT !.now = ws.now + 1]
    /\ NoDriver /\ UNCHANGED <<main, cli, core>>

\* the child reports the first synchronisation
ChildSync ==
    /\ ws.pc \in {"select", "confirm"} /\ ~ws.readable
    /\ ws' = [ws EXCEPT !.readable = TRUE]
    /\ NoDriver /\ UNCHANGED <<main, cli, core>>

InitWait ==
    /\ DriverIdle
    /\ \E w \in 0 .. MaxWait : ws = WaitEntry(w)
    /\ main = NoMain /\ cli = NoCli /\ core = NoCore

NextWait == WaitStep \/ WaitClock \/ ChildSync

\* the parent runs, and pselect returns when its timeout has passed
SpecWait == InitWait /\ [][NextWait]_vars /\ WF_vars(WaitStep) /\ WF_vars(WaitClock)

(***************************************************************************)
(* The synchronization engine: one configured peer with its clock filter,  *)
(* its reachability register, the selection and the system state.  The     *)
(* engine's code is not among the sources; this part follows the           *)
(* specification of the engine (clock filter, peer state machine, clock    *)
(* selection).  Dispersion and aging are left out: they only take peers    *)
(* out of the eligible set.                                                *)
(***************************************************************************)

\* capacity of a peer's filter register
N == 8

\* width of the reachability shift register, in polls
NTP_WINDOW == 8

\* most samples a peer is fed
MaxSamples == 10

\* largest sys_minsane configured
MaxMinsane == 2

\* x * 2^n
RECURSIVE Shl(_, _)
Shl(x, n) == IF n = 0 THEN x ELSE Shl(2 * x, n - 1)

\* the peer as configured: nothing received, not polled yet
CoreEntry(minsane) ==
    [pc |-> "run", reg |-> <<>>, count |-> 0,
     reach |-> 0, state |-> "configured-inactive",
     polled |-> FALSE, replied |-> FALSE, misses |-> 0,
     sys_minsane |-> minsane,
     sys |-> [peer |-> "none", offset |-> 0, last |-> "init"]]

\* a register that grows with every sample: C19 fails of it
record_sample_grow(reg, sample) == Append(reg, sample)

\* record_sample: insert the new observation, evicting the oldest if at
\* capacity
record_sample(reg, sample) ==
    IF Len(reg) >= N THEN Append(Tail(reg), sample) ELSE Append(reg, sample)

\* the retained sample with minimum delay, the most recent among equals
RECURSIVE best_sample(_)
best_sample(reg) ==
    IF Len(reg) = 1 THEN reg[1]
    ELSE LET b == best_sample(Tail(reg))
         IN  IF reg[1].delay < b.delay THEN reg[1] ELSE b

\* the filter output: "none" for an empty register, never a default zero
clock_filter(reg) ==
    IF reg = <<>> THEN [valid |-> FALSE, offset |-> 0]
    ELSE [valid |-> TRUE, offset |-> best_sample(reg).offset]

\* a register that is shifted and never cut to the window: C20 fails of it
reach_shift_open(reach) == 2 * reach

\* every poll interval: shift left, ANDed against the window
reach_shift(reach) == (2 * reach) % Shl(1, NTP_WINDOW)

\* on successful receipt: set the low bit
reach_set(reach) == IF reach % 2 = 1 THEN reach ELSE reach + 1

\* a validated packet gives a sample to the filter and marks the peer reached
packet_received(c, sample) ==
    [c EXCEPT !.reg = record_sample(c.reg, [sample EXCEPT !.seq = c.count + 1]),
              !.count = c.count + 1,
              !.reach = reach_set(c.reach),
              !.state = "reachable",
              !.replied = TRUE,
              !.misses = 0]

\* the poll timeout: the last poll, if any, has timed out unless it was
\* answered; the register is shifted and a peer with an empty register is
\* unreachable
poll_timeout(c) ==
    LET r == reach_shift(c.reach)
    IN  [c EXCEPT !.reach = r,
                  !.state = IF r = 0 THEN "unreachable" ELSE "reachable",
                  !.misses = IF c.polled /\ ~c.replied
                             THEN Min(c.misses + 1, NTP_WINDOW + 1) ELSE 0,
                  !.polled = TRUE,
                  !.replied = FALSE]

\* the eligible peers: reachable, with a filter output
eligible(c) ==
    IF c.state = "reachable" /\ clock_filter(c.reg).valid THEN {"peer"} ELSE {}

\* select: the system peer, "none" with fewer eligible peers than sys_minsane
select(c) ==
    IF Cardinality(eligible(c)) < c.sys_minsane THEN "none"
    ELSE CHOOSE p \in eligible(c) : TRUE

\* a selection tick: with a system peer the loop filter takes its filtered
\* offset, without one the system state is held
selection_tick(c) ==
    LET p == select(c)
    IN  IF p = "none"
        THEN [c EXCEPT !.sys = [c.sys EXCEPT !.peer = "none", !.last = "hold"]]
        ELSE [c EXCEPT !.sys = [peer |-> p, offset |-> clock_filter(c.reg).offset,
                                last |-> "adjust"]]

NoDaemonBut == main = NoMain /\ cli = NoCli /\ ws = NoWait

PacketReceived(samples) ==
    /\ core.pc = "run" /\ core.count < MaxSamples
    /\ \E s \in samples : core' = packet_received(core, s)
    /\ NoDriver /\ UNCHANGED <<main, cli, ws>>

PollTimeout ==
    /\ core.pc = "run"
    /\ core' = poll_timeout(core)
    /\ NoDriver /\ UNCHANGED <<main, cli, ws>>

SelectionTick ==
    /\ core.pc = "run"
    /\ core' = selection_tick(core)
    /\ NoDriver /\ UNCHANGED <<main, cli, ws>>

\* the samples of the filter runs, and the one sample of the reachability runs
FilterSamples == {[seq |-> 0, offset |-> o, delay |-> o] : o \in {1, 2}}

ReachSamples == {[seq |-> 0, offset |-> 1, delay |-> 1]}

InitCore ==
    /\ DriverIdle /\ NoDaemonBut
    /\ \E m \in 1 .. MaxMinsane : core = CoreEntry(m)

NextFilter == PacketReceived(FilterSamples) \/ SelectionTick

SpecFilter == InitCore /\ [][NextFilter]_vars

NextReach == PacketReceived(ReachSamples) \/ PollTimeout \/ SelectionTick

SpecReach == InitCore /\ [][NextReach]_vars


(***************************************************************************)
(* Reading a time stamp from a parsed record (get_binary_time,             *)
(* json_object_lookup_int, strtojint).  A member of the record is          *)
(* [present, text]: present says that the object has a primitive token     *)
(* under the name, text is the token, NUL terminated by json_parse_record. *)
(* json_int is JSON_INT_MIN .. JSON_INT_MAX, json_uint has one bit more.    *)
(***************************************************************************)

\* longest token
MaxTok == 3

\* largest json_int; the smallest is -JSON_INT_MAX - 1
JSON_INT_MAX == 127

JSON_INT_MIN == -JSON_INT_MAX - 1

EINVAL == 22

ERANGE == 34

Digits == {"1", "9"}

DigitVal(ch) == IF ch = "1" THEN 1 ELSE 9

\* the characters of a primitive token
JsonChars == Digits \cup {"-", ".", "e"}

Tokens == UNION {[1 .. n -> JsonChars] : n \in 1 .. MaxTok}

Members == {[present |-> FALSE, text |-> <<>>]}
               \cup {[present |-> TRUE, text |-> t] : t \in Tokens}

\* json_uint arithmetic
JUint(x) == x % (2 * (JSON_INT_MAX + 1))

\* the digit loop of strtojint from position i on, st = [accu, ovf, pos]
RECURSIVE DigitLoop(_, _, _, _)
DigitLoop(text, st, limit_lo, limit_hi) ==
    IF st.pos <= Len(text) /\ text[st.pos] \in Digits
    THEN LET o1 == st.ovf \/ st.accu > limit_lo
             a  == JUint(st.accu * 10 + DigitVal(text[st.pos]))
         IN  DigitLoop(text, [accu |-> a, ovf |-> o1 \/ a > limit_hi,
                              pos |-> st.pos + 1], limit_lo, limit_hi)
    ELSE st

\* strtojint(cp, &ep): [ret, ep, errno]; ep is the position in the token the
\* conversion ended at (1: nothing converted), errno the value it is left with
strtojint(text, errno) ==
    LET neg      == Len(text) >= 1 /\ text[1] = "-"
        plus     == Len(text) >= 1 /\ text[1] = "+"
        start    == IF neg \/ plus THEN 2 ELSE 1
        limit_hi == IF neg THEN JUint(-(JSON_INT_MIN + 1)) + 1 ELSE JSON_INT_MAX
        limit_lo == limit_hi \div 10
        st       == DigitLoop(text, [accu |-> 0, ovf |-> FALSE, pos |-> start],
                              limit_lo, limit_hi)
        ep       == IF st.pos # start THEN st.pos ELSE 1
        e1       == IF st.pos # start THEN errno ELSE EINVAL
        e2       == IF st.ovf THEN ERANGE ELSE e1
        accu     == IF st.ovf THEN limit_hi ELSE st.accu
    IN  [ret   |-> IF neg /\ accu # 0 THEN -(accu - 1) - 1 ELSE accu,
         ep    |-> ep,
         errno |-> e2]

\* json_object_lookup_int: [ret, errno]
json_object_lookup_int(m, errno) ==
    IF m.present
    THEN LET r == strtojint(m.text, errno)
         IN  IF r.ep # 1 /\ r.ep = Len(m.text) + 1   \* cp != ep && '\0' == *ep
             THEN [ret |-> r.ret, errno |-> r.errno]
             ELSE [ret |-> 0, errno |-> r.errno]
    ELSE [ret |-> 0, errno |-> EINVAL]

\* get_binary_time(dest, jctx, time_name, frac_name, fscale); the time stamp
\* stored is kept as the pair of seconds and scaled fraction
get_binary_time(j) ==
    LET tv_sec  == json_object_lookup_int(j.time, 0)
        tv_nsec == json_object_lookup_int(j.frac, tv_sec.errno)
    IN  IF tv_nsec.errno = 0
        THEN [j EXCEPT !.pc = "ret", !.retv = TRUE, !.errno = 0,
                       !.dest = <<tv_sec.ret, tv_nsec.ret * j.fscale>>]
        ELSE [j EXCEPT !.pc = "ret", !.retv = FALSE, !.errno = tv_nsec.errno]

\* the fscale arguments of the callers
Fscales == {1, 1000}

\* process_pps or process_toff calls get_binary_time on a record
JsonEntry(tm, fr, fs) ==
    [pc |-> "call", time |-> tm, frac |-> fr, fscale |-> fs,
     dest |-> <<1, 1>>, old |-> <<1, 1>>, retv |-> FALSE, errno |-> 0]

GetBinaryTime ==
    /\ jsn.pc = "call"
    /\ jsn' = get_binary_time(jsn)
    /\ UNCHANGED <<driver, daemon, clk, prc>>

InitJson ==
    /\ DriverOff /\ NoDaemonBut /\ core = NoCore
    /\ clk = NoClock /\ prc = NoPrecision
    /\ \E tm \in Members, fr \in Members, fs \in Fscales : jsn = JsonEntry(tm, fr, fs)

NextJson == GetBinaryTime

SpecJson == InitJson /\ [][NextJson]_vars


(***************************************************************************)
(* The list of clock units (s_clock_units) as gpsd_start and gpsd_shutdown *)
(* keep it, for several units.  A unit is an object of the heap, named by  *)
(* a number of 1 .. MaxObj; 0 is NULL.  clk.list is the chain of next_unit  *)
(* pointers from s_clock_units on.  A peer is a pair <<n, k>>: unit number  *)
(* n, k = 0 for the primary peer (unit n) and 1 for the secondary peer     *)
(* (unit 128 + n).  Sockets, modes and samples are those of the unit       *)
(* modelled above and are left out here.  clk.last is the place in the    *)
(* list the last call unlinked a unit from: i for gpsd_shutdown, -i for    *)
(* the dev_fail exit of gpsd_start, 0 if it unlinked none.                 *)
(***************************************************************************)

\* number of units configured
NumUnits == 3

\* number of units that have a secondary peer configured, too
NumSecondary == 2

UnitNumbers == 0 .. NumUnits - 1

Peers == (UnitNumbers \X {0}) \cup ((0 .. Min(NumSecondary, NumUnits) - 1) \X {1})

\* the heap has room for one unit more than there are unit numbers
MaxObj == NumUnits + 1

NoObj == [unit |-> -1, refcount |-> 0, pps_peer |-> <<-1, -1>>]

NoPeer == [unitptr |-> 0, started |-> FALSE]

\* the driver before any peer is started
ClockEntry ==
    [pc |-> "run", list |-> <<>>, obj |-> [o \in 1 .. MaxObj |-> NoObj],
     heap |-> {}, peer |-> [p \in Peers |-> NoPeer], fault |-> "none",
     last |-> 0]

\* position of the first unit of the list with the unit number, 0: none
RECURSIVE scan_units(_, _, _)
scan_units(c, n, i) ==
    IF i > Len(c.list) THEN 0
    ELSE IF c.obj[c.list[i]].unit = n THEN i
    ELSE scan_units(c, n, i + 1)

\* *uscan = up->next_unit, with uscan at link i of the chain
unlink_at(list, i) ==
    IF i > Len(list) THEN list
    ELSE SubSeq(list, 1, i - 1) \o SubSeq(list, i + 1, Len(list))

\* an unlink that cuts the chain at the unit: C23 fails of it
unlink_unit_cut(list, u) ==
    IF \E i \in 1 .. Len(list) : list[i] = u
    THEN SubSeq(list, 1, (CHOOSE i \in 1 .. Len(list) :
                            list[i] = u /\ \A j \in 1 .. i - 1 : list[j] # u) - 1)
    ELSE list

\* the unlink loop of gpsd_shutdown: every link to the unit is replaced by
\* up->next_unit
unlink_unit(list, u) == SelectSeq(list, LAMBDA o : o # u)

\* free(u)
free_unit(c, u) ==
    [c EXCEPT !.heap = @ \ {u}, !.obj[u] = NoObj]

\* the dev_fail exit of gpsd_start, with uscan at link i
dev_fail(c, p, u, i) ==
    LET d == [c EXCEPT !.obj[u].refcount = @ - 1, !.peer[p].unitptr = 0]
    IN  IF d.obj[u].refcount = 0
        THEN [free_unit(d, u) EXCEPT !.list = unlink_at(d.list, i),
                                      !.last = -i]
        ELSE d

StartOutcomes == {"nocheck", "nodevice", "noaddr", "ok"}

\* gpsd_start(unit, peer); outcome: gpsd_init_check fails, the device is no
\* character device, up->addr is NULL, or none of these
clock_start(c, p, outcome) ==
    LET c0   == [c EXCEPT !.last = 0]
        i    == scan_units(c, p[1], 1)
        free == (1 .. MaxObj) \ c.heap
        new  == CHOOSE o \in free : \A g \in free : o <= g
        u   == IF i = 0 THEN new ELSE c.list[i]
        at   == IF i = 0 THEN Len(c.list) + 1 ELSE i
        got  == IF i = 0
                THEN [c0 EXCEPT !.heap = @ \cup {new},
                                !.list = Append(@, new),
                                !.obj[new] = [unit |-> p[1], refcount |-> 1,
                                              pps_peer |-> <<-1, -1>>]]
                ELSE [c0 EXCEPT !.obj[u].refcount = @ + 1]
        set  == [got EXCEPT !.peer[p].unitptr = u]
    IN  IF outcome = "nocheck" THEN c0
        ELSE IF i = 0 /\ outcome = "nodevice" THEN dev_fail(got, p, u, at)
        ELSE IF i # 0 /\ outcome = "noaddr" THEN dev_fail(set, p, u, at)
        ELSE [set EXCEPT !.peer[p].started = TRUE,
                         !.obj[u].pps_peer = IF p[2] = 1 THEN p ELSE @]

\* up->pps_peer points to a peer that was shut down
DanglingPeer(c, u) ==
    /\ c.obj[u].pps_peer # <<-1, -1>>
    /\ ~c.peer[c.obj[u].pps_peer].started

ShutdownOutcomes == {"read", "segv"}

\* gpsd_shutdown(pp); outcome: what the read of up->pps_peer->procptr does
\* when the pointer dangles
clock_shutdown(c, p, outcome) ==
    LET u == c.peer[p].unitptr
        c0 == [c EXCEPT !.last = 0]
        d  == [c0 EXCEPT !.obj[u].refcount = @ - 1,
                         !.peer[p] = NoPeer]
    IN  IF u = 0 THEN c0
        ELSE IF DanglingPeer(c, u) /\ outcome = "segv"
        THEN [c EXCEPT !.fault = "segv"]
        ELSE IF d.obj[u].refcount = 0
        THEN [free_unit(d, u) EXCEPT
                 !.list = unlink_unit(d.list, u),
                 !.last = CHOOSE i \in 1 .. Len(d.list) : d.list[i] = u]
        ELSE d

\* the core starts a configured peer that is not running
StartPeer ==
    /\ clk.pc = "run" /\ clk.fault = "none"
    /\ \E p \in Peers, outcome \in StartOutcomes :
          /\ ~clk.peer[p].started
          /\ clk' = clock_start(clk, p, outcome)
    /\ UNCHANGED <<driver, daemon, jsn, prc>>

\* the core removes a peer
ShutdownPeer ==
    /\ clk.pc = "run" /\ clk.fault = "none"
    /\ \E p \in Peers, outcome \in ShutdownOutcomes :
          clk' = clock_shutdown(clk, p, outcome)
    /\ UNCHANGED <<driver, daemon, jsn, prc>>

InitClock ==
    /\ DriverOff /\ NoDaemonBut /\ core = NoCore
    /\ jsn = NoJson /\ prc = NoPrecision
    /\ clk = ClockEntry

NextClock == StartPeer \/ ShutdownPeer

SpecClock == InitClock /\ [][NextClock]_vars


(***************************************************************************)
(* The precision estimates (ibt_prec, pps_prec, peer->precision).  Taken   *)
(* alone they depend on nothing but the records received: the handlers     *)
(* below are the statements of process_tpv, process_pps, the evaluation    *)
(* functions and the poll functions that read or write a precision, run    *)
(* whenever the flags of the unit modelled above could let them run.       *)
(* int is INT_MIN .. INT_MAX, narrower than json_int; int8_t and int16_t    *)
(* have their width.  prc.clamp is history: what the last call of          *)
(* clamped_precision did, see Clamping.                                    *)
(***************************************************************************)

\* largest int; the smallest is -INT_MAX - 1
INT_MAX == 63

INT_MIN == -INT_MAX - 1

\* longest token of a precision member
MaxPrecTok == 2

PRECISION == -9

PPS_PRECISION == -20

\* (int)x
ToInt(x) == ((x - INT_MIN) % (2 * (INT_MAX + 1))) + INT_MIN

\* (int8_t)x
ToInt8(x) == ((x + 128) % 256) - 128

\* (int16_t)x
ToInt16(x) == ((x + 32768) % 65536) - 32768

\* a clamp that only keeps values from above 0: C24 fails of it
clamped_precision_high(rawprec) ==
    ToInt16(IF rawprec > 0 THEN 0 ELSE rawprec)

clamped_precision(rawprec) ==
    LET r1 == IF rawprec > 0 THEN 0 ELSE rawprec
        r2 == IF r1 < -32 THEN -32 ELSE r1
    IN  ToInt16(r2)

\* what frexp(fabs(ept)*0.70710678, &xlog2) and the two tests leave in
\* xlog2: INT_MIN for ept = 0, INT_MAX for an infinite ept, the binary
\* exponent otherwise; the exponents followed lie on both sides of both
\* limits
XlogValues == {INT_MIN, INT_MAX} \cup {-33, -32, -20, -1, 0, 1}

\* the precision members of the PPS records followed
PrecMembers == {m \in Members : Len(m.text) <= MaxPrecTok}

\* what clamped_precision does to a value
Clamping(rawprec) ==
    IF rawprec > 0 THEN "high" ELSE IF rawprec < -32 THEN "low" ELSE "none"

json_object_lookup_int_default(m, def) ==
    IF m.present
    THEN LET r == strtojint(m.text, 0)
         IN  IF r.ep # 1 /\ r.ep = Len(m.text) + 1 THEN r.ret ELSE def
    ELSE def

\* gpsd_start: the unit comes from emalloc_zero, peer->precision is set for
\* the primary and for the secondary peer
PrecisionEntry ==
    [pc |-> "run", ibt_prec |-> 0, pps_prec |-> 0,
     pri |-> PRECISION, sec |-> PPS_PRECISION, clamp |-> "none"]

\* process_tpv: up->ibt_prec = clamped_precision(xlog2)
tpv_precision(c, xlog2) ==
    [c EXCEPT !.ibt_prec = clamped_precision(xlog2), !.clamp = Clamping(xlog2)]

\* process_pps: the precision member of the PPS record, ibt_prec without it
pps_precision(c, m) ==
    LET xlog2 == ToInt(json_object_lookup_int_default(m, c.ibt_prec))
    IN  [c EXCEPT !.pps_prec = clamped_precision(xlog2), !.clamp = Clamping(xlog2)]

\* the paths that feed a sample: "strict" (eval_strict), "secondary"
\* (eval_pps_secondary), "serial" (eval_serial)
FeedPaths == {"strict", "secondary", "serial"}

feed_precision(c, path) ==
    IF path = "strict" THEN [c EXCEPT !.pri = ToInt8(c.pps_prec)]
    ELSE IF path = "secondary" THEN [c EXCEPT !.sec = ToInt8(c.pps_prec)]
    ELSE [c EXCEPT !.pri = ToInt8(c.ibt_prec)]

\* the poll of a peer without samples: who is "pri" or "sec"
poll_precision(c, who) ==
    IF who = "pri" THEN [c EXCEPT !.pri = PRECISION]
    ELSE [c EXCEPT !.sec = PPS_PRECISION]

NoHelperBut == UNCHANGED <<driver, daemon, jsn, clk>>

TpvPrecision ==
    /\ prc.pc = "run"
    /\ \E x \in XlogValues : prc' = tpv_precision(prc, x)
    /\ NoHelperBut

PpsPrecision ==
    /\ prc.pc = "run"
    /\ \E m \in PrecMembers : prc' = pps_precision(prc, m)
    /\ NoHelperBut

FeedPrecision ==
    /\ prc.pc = "run"
    /\ \E path \in FeedPaths : prc' = feed_precision(prc, path)
    /\ NoHelperBut

PollPrecision ==
    /\ prc.pc = "run"
    /\ \E who \in {"pri", "sec"} : prc' = poll_precision(prc, who)
    /\ NoHelperBut

InitPrecision ==
    /\ DriverOff /\ NoDaemonBut /\ core = NoCore
    /\ jsn = NoJson /\ clk = NoClock
    /\ prc = PrecisionEntry

NextPrecision == TpvPrecision \/ PpsPrecision \/ FeedPrecision \/ PollPrecision

SpecPrecision == InitPrecision /\ [][NextPrecision]_vars


(***************************************************************************)
(* Claims                                                                  *)
(***************************************************************************)

\* C1: whatever chunks gpsd_receive is called with, the assembly buffer never
\* holds more than MAX_PDU_LEN-1 characters and no character is stored
\* outside buffer[0 .. MAX_PDU_LEN-1].
C1_BufferBounded ==
    /\ Len(buffer) <= MAX_PDU_LEN - 1
    /\ maxwr <= MAX_PDU_LEN - 1

\* C2: the shutdown of the primary peer closes the registered socket pp->io.fd
\* and the connecting socket up->fdt when they are open, with or without a
\* secondary peer on the unit; the shutdown of the secondary peer closes no
\* socket.
C2_ShutdownClosesSockets ==
    [][((pri.started /\ ~pri'.started) =>
            /\ (pri.io_fd # -1 => pri.io_fd \notin fds'.open \cup fds'.reg)
            /\ (up.fdt # -1 => up.fdt \notin fds'.open))
       /\ ((sec.started /\ ~sec'.started) => fds' = fds)]_vars

\* C3: up->pps_peer never designates a peer that is not started.
C3_NoRemovedPeer == up.pps_peer = "SEC" => sec.started

\* C4: while the last TPV record reported no fix or no time (fl_nosync), the
\* handling of a record feeds no sample, neither to the primary nor to the
\* secondary peer.
C4_NoFeedWithoutFix ==
    (last.cls # "none" /\ up.fl_nosync) =>
        last.fedP = NoSample /\ last.fedS = NoSample

\* C5: in STRICT mode a record feeds the primary peer only when fl_ibt and
\* fl_pps are both set when the mode evaluation is reached; the sample is the
\* IBT reference time with the PPS receive time, and both flags are clear
\* afterwards.
C5_StrictFeedsPairs ==
    (up.mode = MODE_OP_STRICT /\ last.fedP # NoSample) =>
        /\ last.ibt /\ last.pps
        /\ last.fedP = <<up.ibt_stamp, up.pps_recvt>>
        /\ ~up.fl_ibt /\ ~up.fl_pps

\* a record fed the primary peer in STRICT mode
C5_Witness == up.mode = MODE_OP_STRICT /\ last.fedP # NoSample

\* the TPV record just handled left fl_ibt clear or as it was, and the in-band
\* time stamps as they were
TpvTimingIgnored ==
    /\ up'.fl_ibt => up.fl_ibt
    /\ up'.ibt_stamp = up.ibt_stamp
    /\ up'.ibt_recvt = up.ibt_recvt
    /\ up'.ibt_local = up.ibt_local

SwitchAtLimits ==
    /\ (up.fl_rawibt /\ ~up'.fl_rawibt) => up'.ppscount = PPS_MAXCOUNT
    /\ (~up.fl_rawibt /\ up'.fl_rawibt) => up'.ppscount = 0

\* C7: while the unit is in AUTO mode, fl_rawibt becomes false only at a
\* moment when ppscount equals PPS_MAXCOUNT and true only at a moment when
\* ppscount equals 0, so that it does not change while 0 < ppscount <
\* PPS_MAXCOUNT.
C7_SwitchOnlyAtLimits ==
    [][(up.mode = MODE_OP_AUTO /\ up'.mode = MODE_OP_AUTO) => SwitchAtLimits]_vars

\* C7 as the code has it: in AUTO mode the evaluation of a record changes
\* fl_rawibt only at the limits of the account; the start of the primary peer
\* and the entry into AUTO mode set fl_rawibt false with the account at
\* PPS_MAXCOUNT/2.
C7_RecordSwitchesAtLimits ==
    [][/\ (up.mode = MODE_OP_AUTO /\ up'.mode = MODE_OP_AUTO /\ last'.cls # "none")
             => SwitchAtLimits
       /\ (~pri.started /\ pri'.started /\ up'.mode = MODE_OP_AUTO)
             => ~up'.fl_rawibt /\ up'.ppscount = PPS_MAXCOUNT \div 2]_vars

\* a record drained the account and was fed as a TPV-only sample
C7_Witness ==
    /\ up.mode = MODE_OP_AUTO /\ up.fl_rawibt /\ up.ppscount = 0
    /\ last.cls = "TPV" /\ last.fedP # NoSample

\* C8: in AUTO mode a record that brings neither an in-band time stamp nor a
\* PPS sample does not charge the PPS account: an in-band time stamp that
\* stays pending is charged once.
C8_ChargedOncePerSample ==
    [][(up.mode = MODE_OP_AUTO /\ last'.cls \in {"VERSION", "WATCH"})
          => up'.ppscount = up.ppscount]_vars

\* what the unit holds for the primary channel
PrimaryView(u) ==
    <<u.mode, u.fl_nosync, u.fl_ibt, u.fl_pps, u.fl_rawibt, u.ppscount,
      u.ibt_local, u.ibt_stamp, u.ibt_recvt, u.pps_local, u.pps_recvt,
      u.pf_toff, u.tickover, u.tickpres, u.fdt, u.addr, u.tc_breply>>

\* C9: a sample fed to the secondary peer is the pair (pps_stamp2,
\* pps_recvt2), which only PPS records write and which holds the real time
\* and the clock time of PPS records; the poll and the timer of the secondary
\* peer leave the sockets, the primary peer and the primary channel of the
\* unit alone.
C9_SecondaryPpsOnly ==
    [][/\ last'.fedS # NoSample =>
             /\ last'.fedS = <<up'.pps_stamp2, up'.pps_recvt2>>
             /\ last'.fedS[1] \in PpsReals /\ last'.fedS[2] \in PpsClocks
       /\ (up'.pps_stamp2 # up.pps_stamp2 \/ up'.pps_recvt2 # up.pps_recvt2)
             => last'.cls = "PPS"
       /\ (PollSecondary \/ TimerSecondary) =>
             /\ fds' = fds /\ pri' = pri
             /\ PrimaryView(up') = PrimaryView(up)]_vars

\* a record fed the secondary peer
C9_Witness == sec.started /\ last.fedS # NoSample

ReceiveTimeoutKept ==
    /\ PrimaryData => up'.tickover = TICKOVER_LOW
    /\ Online' => tmr'.quiet < TICKOVER_LOW
    /\ (PrimaryTick /\ Online) =>
          /\ ("livecheck" \in tmr'.ev) <=> (up'.tickover = 4)
          /\ (tmr'.quiet = TICKOVER_LOW) => ("stop" \in tmr'.ev /\ ~Online')

C12_RetryAfterFailure ==
    /\ [][(PrimaryTick /\ tmr'.ev \cap {"fail", "stop"} # {})
              => up'.tickover = up.tickpres]_vars
    /\ \A n \in 0 .. NumTries - 1 :
          (/\ pri.started /\ s_gpsd_addr # 0
           /\ tmr.ev \cap {"fail", "stop"} # {}
           /\ tmr.tries = n) ~> (tmr.tries # n)

\* a new connection attempt that did not fail itself, after the preset was
\* raised to its maximum by earlier failures
C12_Witness ==
    /\ "init" \in tmr.ev /\ "fail" \notin tmr.ev
    /\ up.tickpres = TICKOVER_HIGH /\ tmr.tries = 2

\* C13: a line that is no JSON object or has no string member "class" adds
\* one to tc_breply and changes nothing else of the unit and of both peers
\* (gpsd_receive re-arms the receive timeout); no sample is fed.
C13_BadLineDropped ==
    [][(last'.cls = "BAD") =>
          (/\ up' = [up EXCEPT !.tc_breply = up.tc_breply + 1,
                               !.tickover = TICKOVER_LOW]
           /\ pri' = pri /\ sec' = sec /\ fault' = fault
           /\ last'.fedP = NoSample /\ last'.fedS = NoSample)]_vars

\* a bad line was dropped while time stamps of both channels were pending
C13_Witness ==
    /\ last.cls = "BAD" /\ up.tc_breply = 1
    /\ sec.started /\ up.fl_ibt /\ up.fl_pps2

\* C14: once a quit signal has set the quit flag the main loop reaches
\* finish_safe, with the number of a quit signal that was caught, runs
\* peer_cleanup and exits with status 0.
C14_QuitExitsGracefully ==
    /\ main.sawQuit ~> (main.pc = "exit")
    /\ [](main.pc = "exit" =>
            /\ main.sawQuit /\ main.finish = main.signo
            /\ main.finish \in QuitSignals
            /\ main.cleaned /\ main.status = 0)

\* the loop exited on SIGTERM after it had served an alarm
C14_Witness ==
    main.pc = "exit" /\ main.finish = 15 /\ main.current_time > 0

\* the loop statement made an mDNS registration attempt
MdnsAttempt == main'.tries = main.tries + 1

\* C16: mDNS registration is attempted only when the daemon is synchronised;
\* an attempt after a failed one comes more than 60 seconds (MdnsGap) after
\* it; there are at most mdnstries attempts, and none after a success.
C16_MdnsOncePerMinute ==
    [][MdnsAttempt =>
          (/\ main.synced
           /\ main.tried # -1 => main.current_time - main.tried > MdnsGap
           /\ main.tries < MaxMdnsTries
           /\ ~main.mdns)]_vars

\* C17: a command line that gives both -4 and -6 is rejected: the daemon
\* never goes on from option parsing with opt_ipv4 and opt_ipv6 both set.
C17_Ipv4Ipv6Exclusive ==
    cli.pc \in {"parsed", "run"} => ~(cli.opt_ipv4 /\ cli.opt_ipv6)

\* the parent has returned from wait_child_sync_if with a result the claim names
WaitResultNamed ==
    ws.pc = "ret" =>
        /\ ws.exit_code \in {0, ETIMEDOUT}
        /\ ws.wait_sync1 = 0 => ws.exit_code = 0 /\ ws.now = 0
        /\ (ws.exit_code = 0 /\ ws.wait_sync1 # 0) => ws.readable
        /\ ws.exit_code = ETIMEDOUT => ws.now >= ws.wait_end_time

\* the deadline is set once, and no wait goes beyond it
DeadlineKept ==
    /\ ws.pc \in {"select", "confirm", "ret"} /\ ws.wait_sync1 # 0
          => ws.wait_end_time = ws.wait_sync1
    /\ ws.pc = "select" => ws.since + ws.wait_rem <= Max(ws.wait_end_time, ws.since)

\* C18 as stated: the parent always returns; the result is 0 at once for a
\* wait time of 0, 0 when the pipe is readable, ETIMEDOUT after the deadline
\* otherwise; an interrupted wait is retried and never extends the deadline.
C18_WaitSyncResult ==
    /\ <>(ws.pc = "ret")
    /\ [](WaitResultNamed /\ DeadlineKept)

\* C19: whatever samples are inserted into the peer's clock filter, the
\* register never holds more than N entries, and it holds exactly the N most
\* recently inserted samples, in the order of their insertion.
C19_FilterHoldsNewest ==
    core.pc = "run" =>
        /\ Len(core.reg) <= N
        /\ Len(core.reg) = Min(N, core.count)
        /\ \A i \in 1 .. Len(core.reg) :
              core.reg[i].seq = core.count - Len(core.reg) + i

\* more than N samples were inserted: the oldest ones are gone
C19_Witness ==
    /\ core.pc = "run" /\ core.count = N + 2 /\ Len(core.reg) = N
    /\ core.reg[1].seq = 3 /\ core.reg[N].seq = N + 2

\* a selection tick with fewer eligible peers than sys_minsane
InsufficientHeld ==
    (SelectionTick /\ Cardinality(eligible(core)) < core.sys_minsane)
        => /\ core'.sys.peer = "none"
           /\ core'.sys.offset = core.sys.offset
           /\ core'.sys.last = "hold"

\* C20: a peer whose last NTP_WINDOW polls have all timed out is unreachable,
\* and a selection with fewer eligible peers than sys_minsane gives no system
\* peer: the system state is held and the clock is not disciplined.
C20_UnreachableNoSystemPeer ==
    /\ [](core.pc = "run" /\ core.misses >= NTP_WINDOW
             => core.state = "unreachable" /\ eligible(core) = {})
    /\ [][InsufficientHeld]_vars

\* the peer was the system peer, then timed out NTP_WINDOW times in a row:
\* no system peer, the offset it gave is still held
C20_Witness ==
    /\ core.pc = "run" /\ core.sys_minsane = 1
    /\ core.misses = NTP_WINDOW /\ core.state = "unreachable"
    /\ core.sys.peer = "none" /\ core.sys.last = "hold" /\ core.sys.offset # 0

\* a timer tick that closes the socket of the connected primary peer does so
\* on the TICKOVER_LOW-th tick since the connection or the last data, or later
FullTimeoutFirst ==
    (PrimaryTick /\ Online /\ "stop" \in tmr'.ev) => tmr'.quiet >= TICKOVER_LOW

\* C21: after a connection has been established, by a synchronous connect in
\* gpsd_init_socket or by a completed asynchronous connect in
\* gpsd_test_socket, the timer does not close it before TICKOVER_LOW ticks
\* without data have passed.
C21_FullTimeoutAfterConnect == [][FullTimeoutFirst]_vars

\* the value of a string of digits
RECURSIVE DecimalValue(_)
DecimalValue(ds) ==
    IF ds = <<>> THEN 0
    ELSE 10 * DecimalValue(SubSeq(ds, 1, Len(ds) - 1)) + DigitVal(ds[Len(ds)])

\* the member is present and its token is a complete decimal integer, an
\* optional sign and digits, with a value within JSON_INT_MIN .. JSON_INT_MAX
WellFormedInt(m) ==
    /\ m.present
    /\ LET signed == m.text[1] \in {"-", "+"}
           ds     == IF signed THEN Tail(m.text) ELSE m.text
           v      == IF m.text[1] = "-" THEN -DecimalValue(ds) ELSE DecimalValue(ds)
       IN  /\ ds # <<>>
           /\ \A i \in 1 .. Len(ds) : ds[i] \in Digits
           /\ v >= JSON_INT_MIN /\ v <= JSON_INT_MAX

\* C22: get_binary_time returns true only if both members are present and
\* each is a complete, well-formed decimal integer within range; a member
\* that is missing, non-numeric, out of range or followed by trailing
\* characters makes it return false and leaves the destination unchanged.
C22_BinaryTimeValidity ==
    jsn.pc = "ret" =>
        /\ jsn.retv <=> (WellFormedInt(jsn.time) /\ WellFormedInt(jsn.frac))
        /\ ~jsn.retv => jsn.dest = jsn.old

\* the started peers whose unitptr refers to the unit
PeersOf(o) == {p \in Peers : clk.peer[p].started /\ clk.peer[p].unitptr = o}

\* the units on the list
Listed(c) == {c.list[i] : i \in 1 .. Len(c.list)}

\* refcount counts the started peers, and the list holds the allocated units,
\* each once, which are the units with a positive refcount
UnitsCounted ==
    clk.pc = "run" =>
        /\ \A o \in 1 .. MaxObj : clk.obj[o].refcount = Cardinality(PeersOf(o))
        /\ Listed(clk) = clk.heap
        /\ Listed(clk) = {o \in 1 .. MaxObj : clk.obj[o].refcount > 0}
        /\ \A i, j \in 1 .. Len(clk.list) : clk.list[i] = clk.list[j] => i = j

\* a call frees the units whose count it dropped to 0, no other, and leaves
\* the other units on the list in their order, a new unit at the end
UnlinkKeepsOrder ==
    (clk.pc = "run" /\ clk'.pc = "run") =>
        /\ clk.heap \ clk'.heap =
              {o \in clk.heap : clk.obj[o].refcount > 0 /\ clk'.obj[o].refcount = 0}
        /\ SelectSeq(clk'.list, LAMBDA o : o \in clk.heap)
              = SelectSeq(clk.list, LAMBDA o : o \in clk'.heap)
        /\ \A i \in 1 .. Len(clk'.list) :
              clk'.list[i] \notin clk.heap => i = Len(clk'.list)

\* C23: after any sequence of gpsd_start and gpsd_shutdown calls the refcount
\* of every unit is the number of started peers whose unitptr refers to it; a
\* unit is on the s_clock_units list exactly while its refcount is positive,
\* it is unlinked and freed exactly when the count drops to 0, and unlinking
\* leaves the other units on the list, in their order.
C23_RefcountAndList == []UnitsCounted /\ [][UnlinkKeepsOrder]_vars

\* a unit between two others was unlinked by the shutdown of its last peer
C23_Witness ==
    /\ clk.pc = "run" /\ clk.last = 2
    /\ Len(clk.list) = 2
    /\ clk.obj[clk.list[1]].refcount = 2

\* C24: the precision estimates of the unit, ibt_prec and pps_prec, are
\* always within [-32, 0], and so is peer->precision of the primary and of
\* the secondary peer after every sample fed and every poll fallback.
C24_PrecisionClamped ==
    prc.pc = "run" =>
        /\ prc.ibt_prec \in -32 .. 0 /\ prc.pps_prec \in -32 .. 0
        /\ prc.pri \in -32 .. 0 /\ prc.sec \in -32 .. 0

\* a raw precision below -32 was clamped and handed over with a sample of
\* the secondary peer, one above 0 with a sample of the primary peer
C24_Witness ==
    /\ prc.pc = "run" /\ prc.clamp = "low"
    /\ prc.pps_prec = -32 /\ prc.sec = -32
    /\ prc.ibt_prec = 0 /\ prc.pri = 0

=============================================================================
